---- MODULE Spec2Model ----
(***************************************************************************)
(* Artistore: the revisioned blob store (store.go), the credential check   *)
(* (token.go, key.go) and the POST path of the HTTP facade (serve.go).     *)
(*                                                                         *)
(* Strings are sequences of one-character strings.  A file of the store is *)
(* modelled by what a reader can see of it: whether the gzip header has    *)
(* reached the disk, the metadata the header carries, the payload bytes    *)
(* that can be decompressed so far, and whether the gzip trailer has been  *)
(* written.  MD5 is modelled as collision free: the hash of a payload is   *)
(* the payload wrapped in a tag.  The content type is not modelled.        *)
(*                                                                         *)
(* Environment failures are those the code handles explicitly: the body    *)
(* read, MkdirAll, os.Create, the staging of the body and the copy into    *)
(* the revision file.  Close and os.Remove are taken to succeed.           *)
(***************************************************************************)
EXTENDS Integers, Sequences, FiniteSets, TLC

\* ------------------------------------------------------------------ bounds

\* Number of Put calls in one run.
MaxPuts == 3
\* Highest value of the clock.
MaxTime == 2
\* Largest Retain.Num a run is configured with.
MaxNum == 2
\* Largest Retain.Period a run is configured with (clock units).
MaxPeriod == 1
\* Longest key a token is minted for or checked against.
MaxKeyLen == 3
\* Largest number a Range header carries.
MaxOffset == 3
\* Uploads in the models of the read path.
MaxUploads == 2
\* Longest text after "bytes=" in a Range header.
MaxSpecLen == 4

\* ------------------------------------------------------------------ values

KeyA == <<"a">>
KeyAB == <<"a", "/", "b">>
KeyDir == <<"a", "/">>
\* The key whose text is the directory name of KeyAB.
KeyPct == <<"a", "%", "2", "F", "b">>

\* Keys the store is called with.
Keys == {KeyA, KeyAB}
\* Keys a request path can give.
AllKeys == Keys \cup {KeyDir, KeyPct}

BodyX == <<"x">>
BodyYZ == <<"y", "z">>
Bodies == {BodyX, BodyYZ}

Revs == 1..MaxPuts
Uploader == "uploader"
Procs == {Uploader}
\* A second caller of Put, for calls that overlap.
Second == "second"
Writers == {Uploader, Second}
SweepIds == 1..MaxPuts

NoFile == [kind |-> "nofile"]
NoMeta == [kind |-> "nometa"]
NoTask == [kind |-> "notask"]
NoResult == [kind |-> "none"]
NoSeen == [kind |-> "noseen"]
NoReq == [kind |-> "noreq"]
NoResp == [kind |-> "noresp"]
NoCheck == [kind |-> "nocheck"]
NoHeader == [kind |-> "noheader"]
\* time.Time{}: the timestamp of a Metadata{} value.
ZeroTime == [zero |-> TRUE, t |-> 0]
TimeAt(t) == [zero |-> FALSE, t |-> t]

Max(S) == CHOOSE x \in S : \A y \in S : y <= x

\* ------------------------------------------------------------------ names on disk

\* Escaping that keeps '%' as it is.
shouldEscapeSlash(c) == c = "/"

\* url.PathEscape escapes '/' and '%' (among others) and keeps letters.
shouldEscape(c) == c \in {"/", "%"}

hexOf(c) == IF c = "/" THEN <<"%", "2", "F">> ELSE <<"%", "2", "5">>

RECURSIVE escape(_)
escape(key) ==
    IF key = <<>> THEN <<>>
    ELSE (IF shouldEscape(Head(key)) THEN hexOf(Head(key)) ELSE <<Head(key)>>)
         \o escape(Tail(key))

\* url.PathUnescape: ok is FALSE where it returns an error.
RECURSIVE pathUnescape(_)
pathUnescape(p) ==
    IF p = <<>> THEN [ok |-> TRUE, s |-> <<>>]
    ELSE IF Head(p) = "%" THEN
        IF Len(p) >= 3 /\ SubSeq(p, 2, 3) \in {<<"2", "F">>, <<"2", "5">>} THEN
            LET rest == pathUnescape(SubSeq(p, 4, Len(p)))
                c == IF SubSeq(p, 2, 3) = <<"2", "F">> THEN "/" ELSE "%"
            IN  [ok |-> rest.ok, s |-> <<c>> \o rest.s]
        ELSE [ok |-> FALSE, s |-> <<>>]
    ELSE LET rest == pathUnescape(Tail(p))
         IN  [ok |-> rest.ok, s |-> <<Head(p)>> \o rest.s]

unescape(path) == IF pathUnescape(path).ok THEN pathUnescape(path).s ELSE path

DirNames == {escape(k) : k \in AllKeys}

\* ------------------------------------------------------------------ state

VARIABLES
    retain,     \* LocalStore.Retain: [Num, Period]
    now,        \* time.Now()
    dirs,       \* the directories under LocalStore.Path
    files,      \* files[d][r]: the file r of directory d, or NoFile
    pc,         \* pc[p]: where handler p stands in Put
    call,       \* call[p]: the arguments and locals of p's Put
    result,     \* result[p]: what the last Put of p to return has returned
    numSweep,   \* numSweep[i]: the sweepByNum goroutine started by the i-th Put
    timeSweep,  \* timeSweep[s]: the Sweep goroutine s of the period sweeper
    calls,      \* calls[k]: Put calls to k so far
    returned,   \* returned[k]: revisions returned by successful Puts to k, in order
    seen,       \* what the reader's first successful read has returned
    http,       \* http[p]: the request handler p serves and its response
    get,        \* the GET/HEAD handler: its request, where it stands, its response
    checked,    \* the last check of a pure function: its inputs and its answer
    temps       \* temps[p]: the temporary file of the Put of writer p

vars == <<retain, now, dirs, files, pc, call, result, numSweep, timeSweep,
          calls, returned, seen, http, get, checked, temps>>

RECURSIVE Sum(_, _)
Sum(f, S) == IF S = {} THEN 0
             ELSE LET x == CHOOSE y \in S : TRUE IN f[x] + Sum(f, S \ {x})

\* Put calls so far.
NPuts == Sum(calls, DOMAIN calls)

\* ------------------------------------------------------------------ reading

Stored(k) == {r \in Revs : files[escape(k)][r] /= NoFile}

\* LocalStore.Latest: the highest numeric file name of the key's directory.
Latest(k) ==
    IF escape(k) \notin dirs THEN [revision |-> 0, err |-> "ErrNoSuchArtifact"]
    ELSE [revision |-> IF Stored(k) = {} THEN 0 ELSE Max(Stored(k)), err |-> "nil"]

\* LocalStore.open: os.Open, then gzip.NewReader reads the gzip header.
open(k, revision) ==
    LET f == files[escape(k)][revision]
    IN  IF revision \notin Revs \/ f = NoFile THEN [err |-> "ErrNotExist"]
        ELSE IF ~f.hdr THEN [err |-> "EOF"]
        ELSE [err |-> "nil", f |-> f]

\* LocalFileReader.Metadata: json.Unmarshal of the Extra field.
ReaderMetadata(f) ==
    IF f.meta = NoMeta THEN [err |-> "json"]
    ELSE [err |-> "nil", meta |-> f.meta]

\* Metadata{}
EmptyMetadata == [key |-> <<>>, revision |-> 0, size |-> 0, hash |-> [empty |-> TRUE],
                  timestamp |-> ZeroTime]

\* LocalStore.Metadata
Metadata(k, revision) ==
    LET o == open(k, revision)
    IN  IF o.err = "ErrNotExist" THEN
            IF Latest(k).err = "nil" /\ revision < Latest(k).revision
            THEN [err |-> "ErrRevisionDeleted"]
            ELSE [err |-> "ErrNoSuchArtifact"]
        ELSE IF o.err /= "nil" THEN [err |-> "nil", meta |-> EmptyMetadata]
        ELSE ReaderMetadata(o.f)

\* Reading a LocalFileReader to its end: the bytes, and how the read ends.
ReadAll(f) == [data |-> f.data, err |-> IF f.closed THEN "nil" ELSE "ErrUnexpectedEOF"]

\* LocalStore.Get.  A missing file that is not below the latest revision
\* falls through to f.Metadata() on a nil reader: "panic".
Get(k, revision) ==
    LET o == open(k, revision)
    IN  IF o.err = "ErrNotExist" THEN
            IF Latest(k).err /= "nil" THEN [err |-> "ErrNoSuchArtifact"]
            ELSE IF revision < Latest(k).revision THEN [err |-> "ErrRevisionDeleted"]
            ELSE [err |-> "panic"]
        ELSE IF o.err /= "nil" THEN [err |-> o.err]
        ELSE IF ReaderMetadata(o.f).err /= "nil" THEN [err |-> ReaderMetadata(o.f).err]
        ELSE [err |-> "nil", meta |-> o.f.meta, body |-> ReadAll(o.f)]

\* ------------------------------------------------------------------ Put

\* TempFile.Hash: MD5 taken as collision free.
Hash(data) == [md5 |-> data]

\* os.Create: a new, empty file (an existing one is truncated).
CreatedFile == [hdr |-> FALSE, meta |-> NoMeta, data |-> <<>>, closed |-> FALSE]

NoCall == [key |-> <<>>, body |-> <<>>, revision |-> 0, staged |-> <<>>,
           zmeta |-> NoMeta, written |-> <<>>, idx |-> 0]

\* create: revision, _ = s.Latest(key); revision++
NextRevision(latest) == latest + 1

\* A write through the open *os.File lands in the file while it is linked.
WriteFile(d, r, rec) ==
    IF files[d][r] = NoFile THEN files ELSE [files EXCEPT ![d][r] = rec]

\* gzip.Writer.Write: the header goes out with the first write; of the bytes
\* written so far a reader can decompress those of visible.
GzipWrite(f, zmeta, visible) ==
    [hdr |-> TRUE, meta |-> IF f.hdr THEN f.meta ELSE zmeta,
     data |-> visible, closed |-> FALSE]

\* A Close that writes the trailer without flushing what is buffered.
GzipCloseNoFlush(f, zmeta, written) ==
    [hdr |-> TRUE, meta |-> IF f.hdr THEN f.meta ELSE zmeta,
     data |-> f.data, closed |-> TRUE]

\* gzip.Writer.Close: the header if it is not out yet, everything written,
\* and the trailer.
GzipClose(f, zmeta, written) ==
    [hdr |-> TRUE, meta |-> IF f.hdr THEN f.meta ELSE zmeta,
     data |-> written, closed |-> TRUE]

\* The Metadata value Put hands to SetMetadata, stamped with time.Now().
\* No temporary file: none was created, or it has been removed.
NoTemp == [kind |-> "notemp"]

\* NewTempFile: an empty file, a fresh MD5 state, size 0.
NewTempFile == [data |-> <<>>, hashed |-> <<>>, size |-> 0]

\* A Write that counts and hashes the bytes whether or not the file took them.
TempWriteCounted(temp, bytes, n) ==
    [data |-> temp.data \o SubSeq(bytes, 1, n),
     hashed |-> temp.hashed \o bytes,
     size |-> temp.size + Len(bytes)]

\* TempFile.Write(bytes) of which the file takes the first n: with
\* n < Len(bytes) file.Write has failed and Write returns before it counts
\* or hashes anything.
TempWrite(temp, bytes, n) ==
    IF n < Len(bytes)
    THEN [temp EXCEPT !.data = @ \o SubSeq(bytes, 1, n)]
    ELSE [data |-> temp.data \o bytes,
          hashed |-> temp.hashed \o bytes,
          size |-> temp.size + Len(bytes)]

\* The temporary file after the whole body was staged.
Staged(body) == TempWrite(NewTempFile, body, Len(body))

\* A Close that leaves the file in the temporary directory.
TempCloseKeep(temp) == temp

\* TempFile.Close: the file is closed and removed.
TempClose(temp) == NoTemp

\* Put, lines 301-307: the metadata, with temp.Size() and temp.Hash().
PutMetadata(key, revision, temp) ==
    [key |-> key, revision |-> revision, size |-> temp.size,
     hash |-> Hash(temp.hashed), timestamp |-> TimeAt(now)]

\* Put returns r to its caller; the result is kept with the call's arguments.
Return(p, r, k) ==
    /\ pc' = [pc EXCEPT ![p] = "idle"]
    /\ call' = [call EXCEPT ![p] = NoCall]
    /\ result' = [result EXCEPT ![p] =
                      [err |-> r.err, revision |-> r.revision, key |-> k,
                       body |-> call[p].body]]
    /\ returned' = IF r.err = "nil"
                   THEN [returned EXCEPT ![k] = Append(@, r.revision)]
                   ELSE returned

\* Put, line 272: the first read of the body fails.  (The caller's own
\* state, http, is left to the caller.)
PutReadError(p, k) ==
    /\ pc[p] = "idle"
    /\ NPuts < MaxPuts
    /\ calls' = [calls EXCEPT ![k] = @ + 1]
    /\ Return(p, [err |-> "read", revision |-> 0], k)
    /\ UNCHANGED <<retain, now, dirs, files, numSweep, timeSweep, seen, get, checked,
                   temps>>

\* Put, line 272: the head of the body is read.
PutStart(p, k, body) ==
    /\ pc[p] = "idle"
    /\ NPuts < MaxPuts
    /\ calls' = [calls EXCEPT ![k] = @ + 1]
    /\ pc' = [pc EXCEPT ![p] = "latest"]
    /\ call' = [call EXCEPT ![p] = [NoCall EXCEPT !.key = k, !.body = body,
                                                  !.idx = NPuts + 1]]
    /\ UNCHANGED <<retain, now, dirs, files, result, numSweep, timeSweep,
                   returned, seen, get, checked,
                   temps>>

\* Put called on the store directly.
PutReadFail(p, k) == PutReadError(p, k) /\ UNCHANGED http

PutBegin(p, k, body) == PutStart(p, k, body) /\ UNCHANGED http

\* An allocator that skips the numbers other calls in progress hold.
CreateLatestReserved(p) ==
    LET held == {call[q].revision :
                    q \in {w \in Writers \ {p} : pc[w] /= "idle" /\ call[w].key = call[p].key}}
    IN  /\ pc[p] = "latest"
        /\ call' = [call EXCEPT ![p].revision =
                        NextRevision(Max({Latest(call[p].key).revision} \cup held))]
        /\ pc' = [pc EXCEPT ![p] = "create"]
        /\ UNCHANGED <<retain, now, dirs, files, result, numSweep, timeSweep,
                       returned, calls, seen, http, get, checked,
                   temps>>

\* create, lines 209-210.
CreateLatest(p) ==
    /\ pc[p] = "latest"
    /\ call' = [call EXCEPT ![p].revision = NextRevision(Latest(call[p].key).revision)]
    /\ pc' = [pc EXCEPT ![p] = "create"]
    /\ UNCHANGED <<retain, now, dirs, files, result, numSweep, timeSweep,
                   returned, calls, seen, http, get, checked,
                   temps>>

\* create, lines 212-214: MkdirAll fails.
CreateMkdirFail(p) ==
    /\ pc[p] = "create"
    /\ Return(p, [err |-> "mkdir", revision |-> 0], call[p].key)
    /\ UNCHANGED <<retain, now, dirs, files, numSweep, timeSweep, calls,
                   seen, http, get, checked,
                   temps>>

\* create, lines 212-219: the directory is made, os.Create fails.
CreateFileFail(p) ==
    /\ pc[p] = "create"
    /\ dirs' = dirs \cup {escape(call[p].key)}
    /\ Return(p, [err |-> "create", revision |-> 0], call[p].key)
    /\ UNCHANGED <<retain, now, files, numSweep, timeSweep, calls, seen,
                   http, get, checked,
                   temps>>

\* create, lines 212-224: the directory and the empty revision file exist.
CreateFile(p) ==
    /\ pc[p] = "create"
    /\ dirs' = dirs \cup {escape(call[p].key)}
    /\ files' = [files EXCEPT ![escape(call[p].key)][call[p].revision] = CreatedFile]
    /\ pc' = [pc EXCEPT ![p] = "stage"]
    /\ UNCHANGED <<retain, now, call, result, numSweep, timeSweep,
                   returned, calls, seen, http, get, checked,
                   temps>>

\* Put, lines 289-299: the temporary file is there; temp.Write fails after
\* the file took n bytes of the body (n < Len(body)), or the body is
\* written and the next read of the body fails (n = Len(body)).
PutStageWriteFail(p, n) ==
    /\ pc[p] = "stage"
    /\ n <= Len(call[p].body)
    /\ temps' = [temps EXCEPT ![p] = TempWrite(NewTempFile, call[p].body, n)]
    /\ pc' = [pc EXCEPT ![p] = "remove"]
    /\ UNCHANGED <<retain, now, dirs, files, call, result, numSweep,
                   timeSweep, returned, calls, seen, http, get, checked>>

\* Put, lines 283-287: NewTempFile fails.
PutStageFail(p) ==
    /\ pc[p] = "stage"
    /\ pc' = [pc EXCEPT ![p] = "remove"]
    /\ UNCHANGED <<retain, now, dirs, files, call, result, numSweep,
                   timeSweep, returned, calls, seen, http, get, checked,
                   temps>>

\* Put, lines 283-299: the whole body is in the temporary file.
PutStage(p) ==
    /\ pc[p] = "stage"
    /\ call' = [call EXCEPT ![p].staged = call[p].body]
    /\ temps' = [temps EXCEPT ![p] = Staged(call[p].body)]
    /\ pc' = [pc EXCEPT ![p] = "copy"]
    /\ UNCHANGED <<retain, now, dirs, files, result, numSweep, timeSweep,
                   returned, calls, seen, http, get, checked>>

\* Put, lines 301-312: SetMetadata, then CopyTo fails after the first n bytes
\* (n = 0: PrepareToRead fails, nothing is written).
PutCopyFail(p, n) ==
    LET c == call[p]
        d == escape(c.key)
        zm == PutMetadata(c.key, c.revision, temps[p])
        w == SubSeq(temps[p].data, 1, n)
    IN  /\ pc[p] = "copy"
        /\ n < Len(temps[p].data)
        /\ call' = [call EXCEPT ![p].zmeta = zm, ![p].written = w]
        /\ files' = IF n = 0 THEN files
                    ELSE WriteFile(d, c.revision, GzipWrite(files[d][c.revision], zm, w))
        /\ pc' = [pc EXCEPT ![p] = "remove"]
        /\ UNCHANGED <<retain, now, dirs, result, numSweep, timeSweep,
                   returned, calls, seen, http, get, checked,
                   temps>>

\* Put, lines 301-312: SetMetadata, then CopyTo writes the staged bytes into
\* the gzip writer; the first n of them can be read back from the file.
PutCopy(p, n) ==
    LET c == call[p]
        d == escape(c.key)
        zm == PutMetadata(c.key, c.revision, temps[p])
    IN  /\ pc[p] = "copy"
        /\ n <= Len(temps[p].data)
        /\ call' = [call EXCEPT ![p].zmeta = zm, ![p].written = temps[p].data]
        /\ files' = IF Len(temps[p].data) = 0 THEN files
                    ELSE WriteFile(d, c.revision,
                                   GzipWrite(files[d][c.revision], zm,
                                             SubSeq(temps[p].data, 1, n)))
        /\ pc' = [pc EXCEPT ![p] = "spawn"]
        /\ UNCHANGED <<retain, now, dirs, result, numSweep, timeSweep,
                   returned, calls, seen, http, get, checked,
                   temps>>

\* Put, line 314: go s.sweepByNum(key, revision).
PutSpawn(p) ==
    /\ pc[p] = "spawn"
    /\ numSweep' = [numSweep EXCEPT ![call[p].idx] =
                        [key |-> call[p].key, latest |-> call[p].revision,
                         nth |-> calls[call[p].key], pc |-> "start", xs |-> {}]]
    /\ pc' = [pc EXCEPT ![p] = "return"]
    /\ UNCHANGED <<retain, now, dirs, files, call, result, timeSweep,
                   returned, calls, seen, http, get, checked,
                   temps>>

\* Put, line 316 with the deferred temp.Close() and f.Close().
PutReturn(p) ==
    LET c == call[p]
        d == escape(c.key)
    IN  /\ pc[p] = "return"
        /\ files' = WriteFile(d, c.revision,
                              GzipClose(files[d][c.revision], c.zmeta, c.written))
        /\ Return(p, [err |-> "nil", revision |-> c.revision], c.key)
        /\ temps' = [temps EXCEPT ![p] = TempClose(temps[p])]
        /\ UNCHANGED <<retain, now, dirs, numSweep, timeSweep, calls, seen,
                   http, get, checked>>

\* LocalFileWriter.Remove, lines 246-248: f.Close().
RemoveClose(p) ==
    LET c == call[p]
        d == escape(c.key)
    IN  /\ pc[p] = "remove"
        /\ files' = WriteFile(d, c.revision,
                              GzipClose(files[d][c.revision], c.zmeta, c.written))
        /\ pc' = [pc EXCEPT ![p] = "unlink"]
        /\ UNCHANGED <<retain, now, dirs, call, result, numSweep, timeSweep,
                   returned, calls, seen, http, get, checked,
                   temps>>

\* LocalFileWriter.Remove, line 249: os.Remove; Put returns the error, and
\* the deferred temp.Close() runs if the temporary file had been created.
RemoveUnlink(p) ==
    LET c == call[p]
    IN  /\ pc[p] = "unlink"
        /\ files' = [files EXCEPT ![escape(c.key)][c.revision] = NoFile]
        /\ Return(p, [err |-> "put", revision |-> 0], c.key)
        /\ temps' = [temps EXCEPT ![p] = IF temps[p] = NoTemp THEN NoTemp
                                         ELSE TempClose(temps[p])]
        /\ UNCHANGED <<retain, now, dirs, numSweep, timeSweep, calls, seen,
                   http, get, checked>>

\* ------------------------------------------------------------------ sweeps

\* A count sweep that does not spare the newest Num revisions.
NumSweepableAll(rev, latest, num) == rev <= latest

\* A count sweep that keeps one revision too many.
NumSweepableLate(rev, latest, num) == rev < latest - num

\* sweepByNum, line 341.
NumSweepable(rev, latest, num) == rev <= latest - num

\* os.Remove of a revision file (an error, for a file already gone, is logged).
RemoveFile(d, r) == [files EXCEPT ![d][r] = NoFile]

\* The goroutine goes on with the entries xs, or has returned ("done").
NumSweepEnd(i, xs) ==
    numSweep' = [numSweep EXCEPT ![i].pc = IF xs = {} THEN "done" ELSE "loop",
                                 ![i].xs = xs]

\* A count sweep that lists the directory whatever Num is.
SweepByNumListAlways(i) ==
    LET t == numSweep[i]
    IN  /\ t /= NoTask /\ t.pc = "start"
        /\ NumSweepEnd(i, IF escape(t.key) \notin dirs THEN {}
                          ELSE {r \in Stored(t.key) :
                                    NumSweepable(r, t.latest, retain.Num)})
        /\ UNCHANGED <<retain, now, dirs, files, pc, call, result, timeSweep,
                   returned, calls, seen, http, get, checked,
                   temps>>

\* sweepByNum, lines 320-334: return at once for Num <= 0, else list the
\* directory.  Of the listing the model keeps the entries line 341 selects.
SweepByNumList(i) ==
    LET t == numSweep[i]
    IN  /\ t /= NoTask /\ t.pc = "start"
        /\ NumSweepEnd(i, IF retain.Num <= 0 \/ escape(t.key) \notin dirs THEN {}
                          ELSE {r \in Stored(t.key) :
                                    NumSweepable(r, t.latest, retain.Num)})
        /\ UNCHANGED <<retain, now, dirs, files, pc, call, result, timeSweep,
                   returned, calls, seen, http, get, checked,
                   temps>>

\* sweepByNum, lines 336-349: one iteration that removes a file.
SweepByNumRemove(i, r) ==
    LET t == numSweep[i]
    IN  /\ t /= NoTask /\ t.pc = "loop"
        /\ r \in t.xs
        /\ files' = RemoveFile(escape(t.key), r)
        /\ NumSweepEnd(i, t.xs \ {r})
        /\ UNCHANGED <<retain, now, dirs, pc, call, result, timeSweep,
                   returned, calls, seen, http, get, checked,
                   temps>>

IdleSweep == [pc |-> "idle", todo |-> {}, key |-> <<>>, xs |-> {}, latest |-> 0]

\* The goroutine of a tick of the sweeper, and one of a later tick that
\* runs while the first has not returned (StartSweeper, serve.go 83-84).
Sweeper == "sweeper"

Overlapping == "overlapping"

Sweepers == {Sweeper, Overlapping}

\* sweepByTime, line 389.
Expired(timestamp, period) == timestamp.zero \/ timestamp.t + period < now

\* A period sweep that does not spare the latest revision.
TimeSweepableLatest(k, rev, latest) ==
    /\ Metadata(k, rev).err = "nil"
    /\ Expired(Metadata(k, rev).meta.timestamp, retain.Period)

\* sweepByTime, lines 380-389: the revision is one the loop removes.
TimeSweepable(k, rev, latest) ==
    /\ rev /= latest
    /\ Metadata(k, rev).err = "nil"
    /\ Expired(Metadata(k, rev).meta.timestamp, retain.Period)

\* Sweep, lines 401-410: a tick of the sweeper lists the root directory.
\* With Period = 0 every sweepByTime returns at once (line 353).
Sweep(s) ==
    /\ timeSweep[s].pc = "idle"
    /\ timeSweep' = [timeSweep EXCEPT ![s] =
                        IF retain.Period = 0 \/ dirs = {} THEN IdleSweep
                        ELSE [IdleSweep EXCEPT !.pc = "keys",
                                               !.todo = {unescape(d) : d \in dirs}]]
    /\ UNCHANGED <<retain, now, dirs, files, pc, call, result, numSweep,
                   returned, calls, seen, http, get, checked,
                   temps>>

\* sweepByTime, lines 357-367: the next key's directory is listed.
SweepByTimeList(s, k) ==
    /\ timeSweep[s].pc = "keys"
    /\ k \in timeSweep[s].todo
    /\ timeSweep' = [timeSweep EXCEPT ![s] =
                        [timeSweep[s] EXCEPT !.pc = "latest", !.key = k,
                                             !.todo = @ \ {k}, !.xs = Stored(k)]]
    /\ UNCHANGED <<retain, now, dirs, files, pc, call, result, numSweep,
                   returned, calls, seen, http, get, checked,
                   temps>>

TimeSweepGoOn(s, xs) ==
    IF xs /= {} THEN [timeSweep[s] EXCEPT !.pc = "loop", !.xs = xs]
    ELSE IF timeSweep[s].todo /= {} THEN [timeSweep[s] EXCEPT !.pc = "keys", !.xs = {}]
    ELSE IdleSweep

\* sweepByTime, lines 369-372: latest is read after the listing.
SweepByTimeLatest(s) ==
    /\ timeSweep[s].pc = "latest"
    /\ timeSweep' = [timeSweep EXCEPT ![s] =
                        [TimeSweepGoOn(s, timeSweep[s].xs) EXCEPT
                            !.latest = IF timeSweep[s].xs = {} THEN 0
                                       ELSE Latest(timeSweep[s].key).revision]]
    /\ UNCHANGED <<retain, now, dirs, files, pc, call, result, numSweep,
                   returned, calls, seen, http, get, checked,
                   temps>>

\* sweepByTime, lines 374-397: one iteration of the loop.
SweepByTimeStep(s, r) ==
    /\ timeSweep[s].pc = "loop"
    /\ r \in timeSweep[s].xs
    /\ files' = IF TimeSweepable(timeSweep[s].key, r, timeSweep[s].latest)
                THEN RemoveFile(escape(timeSweep[s].key), r)
                ELSE files
    /\ timeSweep' = [timeSweep EXCEPT ![s] = TimeSweepGoOn(s, timeSweep[s].xs \ {r})]
    /\ UNCHANGED <<retain, now, dirs, pc, call, result, numSweep,
                   returned, calls, seen, http, get, checked,
                   temps>>

\* The clock advances.
Tick ==
    /\ now < MaxTime
    /\ now' = now + 1
    /\ UNCHANGED <<retain, dirs, files, pc, call, result, numSweep,
                   timeSweep, returned, calls, seen, http, get, checked,
                   temps>>

\* ------------------------------------------------------------------ keys

\* The characters keyRegexp allows, among those the model uses.
KeyAlphabet == {"a", "b", "/", "%"}

\* VerifyKey
VerifyKey(key) ==
    IF Len(key) = 0 THEN "ErrEmptyKey"
    ELSE IF key[1] = "/" \/ key[Len(key)] = "/" THEN "ErrSlashKey"
    ELSE IF \E i \in 1..Len(key) : key[i] \notin KeyAlphabet THEN "ErrInvalidKey"
    ELSE "nil"

\* strings.Split(s, sep) for a one-character sep.
RECURSIVE Split(_, _)
Split(s, sep) ==
    IF \A i \in 1..Len(s) : s[i] /= sep THEN <<s>>
    ELSE LET i == CHOOSE j \in 1..Len(s) :
                      s[j] = sep /\ \A h \in 1..(j - 1) : s[h] /= sep
         IN  <<SubSeq(s, 1, i - 1)>> \o Split(SubSeq(s, i + 1, Len(s)), sep)

\* The x of KeyPrefixes after n rounds of its loop: xs[0] + "/" + ... .
RECURSIVE JoinSlash(_, _)
JoinSlash(xs, n) == IF n = 0 THEN <<>> ELSE JoinSlash(xs, n - 1) \o xs[n] \o <<"/">>

\* Prefixes listed from the shortest to the longest.
KeyPrefixesAscending(key) ==
    IF \A i \in 1..Len(key) : key[i] /= "/" THEN <<>>
    ELSE LET all == Split(key, "/")
             xs == SubSeq(all, 1, Len(all) - 1)
         IN  [j \in 1..Len(xs) |-> JoinSlash(xs, j)]

\* KeyPrefixes: results[len(results)-i-1] = xs[0] + "/" + ... + xs[i] + "/".
KeyPrefixes(key) ==
    IF \A i \in 1..Len(key) : key[i] /= "/" THEN <<>>
    ELSE LET all == Split(key, "/")
             xs == SubSeq(all, 1, Len(all) - 1)
         IN  [j \in 1..Len(xs) |-> JoinSlash(xs, Len(xs) - j + 1)]

\* ------------------------------------------------------------------ tokens

Secret1 == "secret1"
Secret2 == "secret2"
Secrets == {Secret1, Secret2}
Salts == {"salt1", "salt2"}

\* NewTokenWithSalt: the salt, then SHA-224 of secret, salt and key.  The
\* digest is taken as collision free: it is the triple it was computed from.
NewTokenWithSalt(secret, key, salt) ==
    [salt |-> salt, digest |-> [secret |-> secret, salt |-> salt, key |-> key]]

\* Token.Salt
Salt(t) == t.salt

\* A check that accepts only a token minted for the key itself.
IsCorrentTokenExact(secret, t, key) == NewTokenWithSalt(secret, key, Salt(t)) = t

\* IsCorrentToken, with the loop over KeyPrefixes(key)
IsCorrentToken(secret, t, key) ==
    \/ NewTokenWithSalt(secret, key, Salt(t)) = t
    \/ \E i \in 1..Len(KeyPrefixes(key)) :
           NewTokenWithSalt(secret, KeyPrefixes(key)[i], Salt(t)) = t

\* len(raw) of a well-formed token or secret text.
TextLen == 46

\* Token.String: "t1:" and the base64url text of the 32 bytes.
TokenString(t) == [prefix |-> "t1:", len |-> TextLen, valid |-> TRUE, bytes |-> t]

\* ParseToken
ParseToken(raw) ==
    IF raw.prefix = "s1:" THEN [err |-> "ErrSeemsSecret"]
    ELSE IF raw.len /= TextLen \/ raw.prefix /= "t1:" THEN [err |-> "ErrInvalidToken"]
    ELSE IF ~raw.valid THEN [err |-> "base64"]
    ELSE [err |-> "nil", token |-> raw.bytes]

\* ------------------------------------------------------------------ HTTP

\* strings.TrimLeft(path, "/")
RECURSIVE TrimLeft(_)
\* One leading "/" removed.
TrimLeftOne(path) ==
    IF path /= <<>> /\ Head(path) = "/" THEN Tail(path) ELSE path

TrimLeft(path) ==
    IF path /= <<>> /\ Head(path) = "/" THEN TrimLeft(Tail(path)) ELSE path

\* Server.pathTo: "/" + key + "?rev=" + revision
\* A Location that names the key and no revision of it.
pathToZero(key, revision) == [path |-> <<"/">> \o key, rev |-> 0]

pathTo(key, revision) == [path |-> <<"/">> \o key, rev |-> revision]

NoLocation == [kind |-> "nolocation"]

\* A Post that parses the token and does not verify it.
PostForbiddenUnverified(secret, auth, key) ==
    \/ auth.scheme = "none"
    \/ auth.scheme /= "bearer"
    \/ ParseToken(auth.raw).err /= "nil"

\* Post, lines 323-337: the request is answered 403.
PostForbidden(secret, auth, key) ==
    \/ auth.scheme = "none"
    \/ auth.scheme /= "bearer"
    \/ ParseToken(auth.raw).err /= "nil"
    \/ ~IsCorrentToken(secret, ParseToken(auth.raw).token, key)

\* The handler answers r at once; nothing else changes.
Respond(p, r, status) ==
    /\ http' = [http EXCEPT ![p] = [req |-> r,
                                    resp |-> [status |-> status,
                                              location |-> NoLocation]]]
    /\ UNCHANGED <<retain, now, dirs, files, pc, call, result, numSweep,
                   timeSweep, calls, returned, seen, get, checked,
                   temps>>

\* Post, lines 320-339: 403, or the body goes to Store.Put.
Post(p, key, r) ==
    IF PostForbidden(Secret1, r.auth, key) THEN Respond(p, r, 403)
    ELSE /\ http' = [http EXCEPT ![p] = [req |-> r, resp |-> NoResp]]
         /\ \/ PutStart(p, key, r.body)
            \/ PutReadError(p, key)

\* ServeHTTP for POST and for the methods of its default branch.
\* ServeHTTP as it was before the empty key was checked first: the method is
\* looked at first, and Post answers 405 for the empty key.
ServeHTTPMethodFirst(p, r) ==
    LET key == TrimLeft(r.path)
    IN  /\ pc[p] = "idle"
        /\ http[p].req = NoReq \/ http[p].resp /= NoResp
        /\ IF r.method = "POST" /\ key = <<>> THEN Respond(p, r, 405)
           ELSE IF key = <<>> THEN Respond(p, r, 404)
           ELSE IF r.method = "POST" THEN Post(p, key, r)
           ELSE IF r.method = "OPTIONS" THEN Respond(p, r, 200)
           ELSE Respond(p, r, 405)

ServeHTTP(p, r) ==
    LET key == TrimLeft(r.path)
    IN  /\ pc[p] = "idle"
        /\ http[p].req = NoReq \/ http[p].resp /= NoResp
        /\ IF key = <<>> THEN Respond(p, r, 404)
           ELSE IF r.method = "POST" THEN Post(p, key, r)
           ELSE IF r.method = "OPTIONS" THEN Respond(p, r, 200)
           ELSE Respond(p, r, 405)

\* Post, lines 339-352: Put has returned; 500, or 201 with the Location.
\* The response written when CopyTo has returned, before the file is closed.
PostRespondEarly(p) ==
    /\ pc[p] = "return"
    /\ http[p].req /= NoReq
    /\ http[p].resp = NoResp
    /\ http' = [http EXCEPT ![p].resp =
                    [status |-> 201,
                     location |-> pathTo(call[p].key, call[p].revision)]]
    /\ UNCHANGED <<retain, now, dirs, files, pc, call, result, numSweep,
                   timeSweep, calls, returned, seen, get, checked,
                   temps>>

PostRespond(p) ==
    /\ pc[p] = "idle"
    /\ http[p].req /= NoReq
    /\ http[p].resp = NoResp
    /\ http' = [http EXCEPT ![p].resp =
                    IF result[p].err /= "nil"
                    THEN [status |-> 500, location |-> NoLocation]
                    ELSE [status |-> 201,
                          location |-> pathTo(result[p].key, result[p].revision)]]
    /\ UNCHANGED <<retain, now, dirs, files, pc, call, result, numSweep,
                   timeSweep, calls, returned, seen, get, checked,
                   temps>>

\* A caller checks a token against a key.
CheckToken ==
    /\ checked /= NoCheck
    /\ ~checked.done
    /\ checked' = [checked EXCEPT
                      !.done = TRUE,
                      !.ok = IsCorrentToken(checked.secret, checked.token,
                                            checked.key)]
    /\ UNCHANGED <<retain, now, dirs, files, pc, call, result, numSweep,
                   timeSweep, calls, returned, seen, http, get,
                   temps>>

\* ------------------------------------------------------------------ GET

\* A decimal field of a request: absent (""), a number, or not a number.
Absent == [kind |-> "absent", n |-> 0]
Number(n) == [kind |-> "num", n |-> n]
Junk == [kind |-> "junk", n |-> 0]

\* RangeRequest{}
ZeroRange == [From |-> 0, To |-> 0, Suffix |-> 0, Total |-> 0]

\* No Range header: r.Header.Get("Range") = "".
NoRange == [unit |-> "", from |-> Absent, to |-> Absent]

\* The header "bytes=A-B" ("bytes=A-", "bytes=-N") with more specs after
\* a comma or not: SplitN(header, ",", 2)[0] keeps the first.
BytesRange(from, to) == [unit |-> "bytes=", from |-> from, to |-> to]

\* A parser that leaves To as the header gives it (the last byte's index).
parseRangeRequestInclusive(header) ==
    IF header.unit = "" THEN [err |-> "nil", req |-> ZeroRange]
    ELSE IF header.unit /= "bytes=" THEN [err |-> "ErrInvalidRangeType", req |-> ZeroRange]
    ELSE IF header.from.kind = "junk" THEN [err |-> "ParseInt", req |-> ZeroRange]
    ELSE IF header.from.kind = "num" /\ header.to.kind = "junk"
         THEN [err |-> "ParseInt", req |-> [ZeroRange EXCEPT !.From = header.from.n]]
    ELSE IF header.from.kind = "absent" /\ header.to.kind = "junk"
         THEN [err |-> "ParseInt", req |-> ZeroRange]
    ELSE LET req == [From |-> IF header.from.kind = "num" THEN header.from.n ELSE 0,
                     To |-> IF header.from.kind = "num" /\ header.to.kind = "num"
                            THEN header.to.n ELSE 0,
                     Suffix |-> IF header.from.kind = "absent" /\ header.to.kind = "num"
                                THEN header.to.n ELSE 0,
                     Total |-> 0]
         IN  [err |-> IF req.From < 0 \/ (req.To /= 0 /\ req.To <= req.From)
                      THEN "ErrInvalidRange" ELSE "nil",
              req |-> req]

\* parseRangeRequest
parseRangeRequest(header) ==
    IF header.unit = "" THEN [err |-> "nil", req |-> ZeroRange]
    ELSE IF header.unit /= "bytes=" THEN [err |-> "ErrInvalidRangeType", req |-> ZeroRange]
    ELSE IF header.from.kind = "junk" THEN [err |-> "ParseInt", req |-> ZeroRange]
    ELSE IF header.from.kind = "num" /\ header.to.kind = "junk"
         THEN [err |-> "ParseInt", req |-> [ZeroRange EXCEPT !.From = header.from.n]]
    ELSE IF header.from.kind = "absent" /\ header.to.kind = "junk"
         THEN [err |-> "ParseInt", req |-> ZeroRange]
    ELSE LET req == [From |-> IF header.from.kind = "num" THEN header.from.n ELSE 0,
                     To |-> IF header.from.kind = "num" /\ header.to.kind = "num"
                            THEN header.to.n + 1 ELSE 0,
                     Suffix |-> IF header.from.kind = "absent" /\ header.to.kind = "num"
                                THEN header.to.n ELSE 0,
                     Total |-> 0]
         IN  [err |-> IF req.From < 0 \/ (req.To /= 0 /\ req.To <= req.From)
                      THEN "ErrInvalidRange" ELSE "nil",
              req |-> req]

\* RangeRequest.String: "bytes From-(to-1)/Total"
RangeString(req) ==
    [from |-> req.From,
     last |-> (IF req.To = 0 THEN req.Total ELSE req.To) - 1,
     total |-> req.Total]

\* RangeRequest.Requested
Requested(req) == req.From /= 0 \/ req.To /= 0 \/ req.Suffix /= 0

\* RangeRequest.Size
RangeSize(req) ==
    IF req.Suffix > 0 THEN req.Suffix
    ELSE IF req.To = 0 THEN req.Total - req.From
    ELSE req.To - req.From

\* The text of a Range header, one character per element.
BytesUnit == <<"b", "y", "t", "e", "s", "=">>
ChunkUnit == <<"c", "h", "u", "n", "k", "=">>

\* strings.HasPrefix
HasPrefix(s, prefix) ==
    Len(s) >= Len(prefix) /\ SubSeq(s, 1, Len(prefix)) = prefix

\* strings.TrimSpace
RECURSIVE TrimSpace(_)
TrimSpace(s) ==
    IF s = <<>> THEN s
    ELSE IF Head(s) = " " THEN TrimSpace(Tail(s))
    ELSE IF s[Len(s)] = " " THEN TrimSpace(SubSeq(s, 1, Len(s) - 1))
    ELSE s

\* strings.Index for a one-character separator: 0 where it does not occur.
IndexOf(s, c) ==
    IF \E i \in 1..Len(s) : s[i] = c
    THEN CHOOSE i \in 1..Len(s) : s[i] = c /\ \A j \in 1..(i - 1) : s[j] /= c
    ELSE 0

\* strings.SplitN(s, sep, 2): one element where sep does not occur.
SplitN2(s, sep) ==
    IF IndexOf(s, sep) = 0 THEN <<s>>
    ELSE <<SubSeq(s, 1, IndexOf(s, sep) - 1), SubSeq(s, IndexOf(s, sep) + 1, Len(s))>>

DecimalDigits == <<"0", "1", "2", "3", "4", "5", "6", "7", "8", "9">>

IsDigit(c) == \E d \in 1..Len(DecimalDigits) : DecimalDigits[d] = c

DigitValue(c) == (CHOOSE d \in 1..Len(DecimalDigits) : DecimalDigits[d] = c) - 1

RECURSIVE DecimalValue(_)
DecimalValue(s) ==
    IF s = <<>> THEN 0
    ELSE DecimalValue(SubSeq(s, 1, Len(s) - 1)) * 10 + DigitValue(s[Len(s)])

\* strconv.ParseInt(s, 10, 64): an optional sign and at least one digit
\* (the texts of the model are too short to overflow 64 bits).
ParseInt(s) ==
    LET digits == IF s /= <<>> /\ Head(s) \in {"+", "-"} THEN Tail(s) ELSE s
    IN  IF digits = <<>> \/ \E i \in 1..Len(digits) : ~IsDigit(digits[i]) THEN Junk
        ELSE IF Head(s) = "-" THEN Number(0 - DecimalValue(digits))
        ELSE Number(DecimalValue(digits))

\* One side of the '-': xs[i] = "" is not parsed.
RangeField(s) == IF s = <<>> THEN Absent ELSE ParseInt(s)

\* A selection that takes the spec after the last comma.
RECURSIVE LastSpec(_)
LastSpec(s) ==
    IF IndexOf(s, ",") = 0 THEN s
    ELSE LastSpec(SubSeq(s, IndexOf(s, ",") + 1, Len(s)))

\* strings.SplitN(header, ",", 2)[0]
FirstSpec(s) == SplitN2(s, ",")[1]

\* parseRangeRequest on the text of the header, lines 145-156: the prefix,
\* the first spec and its two sides; the rest is parseRangeRequest above.
\* A spec without '-' makes xs one element long: xs[1] is then an index
\* out of range, reached unless ParseInt(xs[0]) has failed before.
parseRangeHeader(header) ==
    IF header = <<>> THEN parseRangeRequest(NoRange)
    ELSE IF ~HasPrefix(header, BytesUnit)
         THEN parseRangeRequest([unit |-> "other", from |-> Absent, to |-> Absent])
    ELSE LET spec == TrimSpace(FirstSpec(TrimSpace(SubSeq(header, Len(BytesUnit) + 1,
                                                          Len(header)))))
             xs == SplitN2(spec, "-")
         IN  IF Len(xs) = 1
             THEN IF xs[1] /= <<>> /\ ParseInt(xs[1]) = Junk
                  THEN [err |-> "ParseInt", req |-> ZeroRange]
                  ELSE [err |-> "panic", req |-> ZeroRange]
             ELSE parseRangeRequest(BytesRange(RangeField(xs[1]), RangeField(xs[2])))

\* A caller parses a Range header and asks for the Size of the result for
\* an artifact of total bytes.
ParseRange ==
    /\ checked /= NoCheck
    /\ ~checked.done
    /\ checked' = [checked EXCEPT
                      !.done = TRUE,
                      !.res = parseRangeHeader(checked.header),
                      !.size = RangeSize([parseRangeHeader(checked.header).req
                                             EXCEPT !.Total = checked.total])]
    /\ UNCHANGED <<retain, now, dirs, files, pc, call, result, numSweep,
                   timeSweep, calls, returned, seen, http, get,
                   temps>>

\* io.CopyN(w, f, n) on a reader over f that stands at pos: the bytes that
\* are copied and the error (n < 0 copies nothing and gives no error).
CopyN(f, pos, n) ==
    LET avail == Len(f.data) - pos
    IN  IF n <= 0 THEN [data |-> <<>>, err |-> "nil"]
        ELSE IF n <= avail THEN [data |-> SubSeq(f.data, pos + 1, pos + n), err |-> "nil"]
        ELSE [data |-> SubSeq(f.data, pos + 1, Len(f.data)),
              err |-> IF f.closed THEN "EOF" ELSE "ErrUnexpectedEOF"]

\* io.Copy(w, f) on a reader over f that stands at pos.
CopyAll(f, pos) ==
    [data |-> SubSeq(f.data, pos + 1, Len(f.data)),
     err |-> IF f.closed THEN "nil" ELSE "ErrUnexpectedEOF"]

\* LocalFileReader.Seek(offset, io.SeekStart): the reader is reset and offset
\* bytes are discarded.
SeekStart(f, offset) ==
    [pos |-> Len(CopyN(f, 0, offset).data), err |-> CopyN(f, 0, offset).err]

\* LocalFileReader.Seek(offset, io.SeekEnd)
SeekEnd(f, offset) ==
    IF ReaderMetadata(f).err /= "nil" THEN [pos |-> 0, err |-> ReaderMetadata(f).err]
    ELSE SeekStart(f, f.meta.size - offset)

\* A LocalFileReader over the file f: pos is the field f.pos, at the place
\* of the decompressor in the payload; op, whence, arg, reported, err and
\* data keep the last call and what it returned.
ReaderOver(f) ==
    [f |-> f, pos |-> 0, at |-> 0, op |-> "open", whence |-> "none", arg |-> 0,
     reported |-> 0, err |-> "nil", data |-> <<>>, done |-> TRUE]

\* A seek that leaves f.pos as it is before it discards.
ReaderSeekToKeepPos(rd, target) ==
    [pos |-> rd.pos + SeekStart(rd.f, target).pos,
     at |-> SeekStart(rd.f, target).pos,
     reported |-> SeekStart(rd.f, target).pos,
     err |-> SeekStart(rd.f, target).err]

\* LocalFileReader.Seek(target, io.SeekStart), lines 144-154: the file and
\* the decompressor are reset, f.pos = 0, and target bytes are read through
\* f.Read, which counts them in f.pos; CopyN's count is reported.
ReaderSeekTo(rd, target) ==
    [pos |-> 0 + SeekStart(rd.f, target).pos,
     at |-> SeekStart(rd.f, target).pos,
     reported |-> SeekStart(rd.f, target).pos,
     err |-> SeekStart(rd.f, target).err]

\* LocalFileReader.Seek, lines 142-166: the three cases of whence.
ReaderSeekResult(rd, offset, whence) ==
    IF whence = "start" THEN ReaderSeekTo(rd, offset)
    ELSE IF whence = "current" THEN ReaderSeekTo(rd, rd.pos + offset)
    ELSE IF ReaderMetadata(rd.f).err /= "nil"
         THEN [pos |-> rd.pos, at |-> rd.at, reported |-> 0,
               err |-> ReaderMetadata(rd.f).err]
    ELSE ReaderSeekTo(rd, rd.f.meta.size - offset)

\* A caller seeks.
ReaderSeek(offset, whence) ==
    LET r == ReaderSeekResult(checked, offset, whence)
    IN  /\ checked /= NoCheck
        /\ checked' = [checked EXCEPT !.pos = r.pos, !.at = r.at, !.op = "seek",
                                      !.whence = whence, !.arg = offset,
                                      !.reported = r.reported, !.err = r.err,
                                      !.data = <<>>]
        /\ UNCHANGED <<retain, now, dirs, files, pc, call, result, numSweep,
                       timeSweep, calls, returned, seen, http, get,
                   temps>>

\* LocalFileReader.Read, lines 130-134, with a buffer of n bytes.
ReaderRead(n) ==
    LET c == CopyN(checked.f, checked.at, n)
    IN  /\ checked /= NoCheck
        /\ checked' = [checked EXCEPT !.pos = @ + Len(c.data),
                                      !.at = @ + Len(c.data), !.op = "read",
                                      !.whence = "none", !.arg = n,
                                      !.reported = Len(c.data),
                                      !.err = IF c.data = <<>> THEN c.err ELSE "nil",
                                      !.data = c.data]
        /\ UNCHANGED <<retain, now, dirs, files, pc, call, result, numSweep,
                       timeSweep, calls, returned, seen, http, get,
                   temps>>

\* Store.Get(key, revision, rangeRequest), the Get of Server.Get: Get, and
\* for a requested range the reader is moved to its first byte; a range
\* outside [0, size] is the error Server.Get answers with 416.
GetRange(k, revision, req) ==
    LET g == Get(k, revision)
        f == open(k, revision).f
        size == g.meta.size
        first == IF req.Suffix > 0 THEN size - req.Suffix ELSE req.From
        end == IF req.Suffix > 0 \/ req.To = 0 THEN size ELSE req.To
        at == IF req.Suffix > 0 THEN SeekEnd(f, req.Suffix) ELSE SeekStart(f, req.From)
    IN  IF g.err /= "nil" THEN [err |-> g.err]
        ELSE IF ~Requested(req) THEN [err |-> "nil", meta |-> g.meta, f |-> f, pos |-> 0]
        ELSE IF first < 0 \/ first > size \/ end > size
             THEN [err |-> "ErrInvalidRangeType"]
        ELSE IF at.err /= "nil" THEN [err |-> at.err]
        ELSE [err |-> "nil", meta |-> g.meta, f |-> f, pos |-> at.pos]

\* What a handler has written when it returns: the status, the headers the
\* model follows and the body.  net/http sends no body for HEAD, and
\* HeadWriter.Write drops what Server.Get writes.
NoHeaders == [etag |-> NoHeader, modified |-> NoHeader, length |-> NoHeader,
              crange |-> NoHeader]
NoBody == [kind |-> "none", data |-> <<>>, err |-> "nil"]
TextBody == [kind |-> "text", data |-> <<>>, err |-> "nil"]

Reply(method, status, location, headers, body) ==
    [status |-> status, location |-> location, headers |-> headers,
     body |-> IF method = "HEAD" THEN NoBody ELSE body]

\* A handler that panics: net/http recovers and closes the connection.
Aborted == [status |-> 0, location |-> NoLocation, headers |-> NoHeaders, body |-> NoBody]

\* The timestamp is not after t.
NotAfter(timestamp, t) == timestamp.zero \/ timestamp.t <= t

\* time.Time.After
After(timestamp, t) == ~timestamp.zero /\ timestamp.t > t

\* Server.Get without rev, lines 303-316.
GetLatest(key, r) ==
    IF Latest(key).err = "ErrNoSuchArtifact"
    THEN Reply(r.method, 404, NoLocation, NoHeaders, TextBody)
    ELSE Reply(r.method, 303, pathTo(key, Latest(key).revision), NoHeaders, TextBody)

\* A lookup that passes every Range header on to Store.Get.
GetLookupLenient(key, r) ==
    LET m == Metadata(key, r.rev.n)
        answer(status) == [pc |-> "idle",
                           resp |-> Reply(r.method, status, NoLocation, NoHeaders, TextBody)]
    IN  IF r.rev.kind = "junk" \/ r.rev.n < 0 THEN answer(400)
        ELSE IF m.err = "ErrNoSuchArtifact" THEN answer(404)
        ELSE IF m.err = "ErrRevisionDeleted" THEN answer(410)
        ELSE IF m.err /= "nil" THEN answer(500)
        ELSE [pc |-> "open", resp |-> NoResp]

\* Server.Get with rev, lines 206-239: the response, or "open" to go on.
GetLookup(key, r) ==
    LET m == Metadata(key, r.rev.n)
        answer(status) == [pc |-> "idle",
                           resp |-> Reply(r.method, status, NoLocation, NoHeaders, TextBody)]
    IN  IF r.rev.kind = "junk" \/ r.rev.n < 0 THEN answer(400)
        ELSE IF m.err = "ErrNoSuchArtifact" THEN answer(404)
        ELSE IF m.err = "ErrRevisionDeleted" THEN answer(410)
        ELSE IF m.err /= "nil" THEN answer(500)
        ELSE IF parseRangeRequest(r.range).err /= "nil" THEN answer(400)
        ELSE [pc |-> "open", resp |-> NoResp]

\* Server.Get, lines 254-259: If-Range drops the range.
DropRange(r, meta) ==
    /\ r.ifRange /= NoHeader
    /\ IF r.ifRange.kind = "date" THEN After(meta.timestamp, r.ifRange.t)
       ELSE meta.hash /= r.ifRange.hash

\* Every error of Store.Get answered as an internal error.
GetFailedInternal(method, err) ==
    IF err = "panic" THEN Aborted
    ELSE Reply(method, 500, NoLocation, NoHeaders, TextBody)

\* Server.Get, lines 242-251: the answer to an error of Store.Get.  A nil
\* reader dereferenced inside Store.Get ends the handler without an answer.
GetFailed(method, err) ==
    IF err = "ErrInvalidRangeType" THEN Reply(method, 416, NoLocation, NoHeaders, TextBody)
    ELSE IF err = "panic" THEN Aborted
    ELSE Reply(method, 500, NoLocation, NoHeaders, TextBody)

\* Server.Get for HEAD: the handler returns at line 288 and net/http sends
\* the headers with status 200.
GetAnswerHead(key, r) ==
    LET g == GetRange(key, r.rev.n, parseRangeRequest(r.range).req)
        req == [(IF DropRange(r, g.meta) THEN ZeroRange ELSE parseRangeRequest(r.range).req)
                   EXCEPT !.Total = g.meta.size]
        headers == [etag |-> g.meta.hash,
                    modified |-> g.meta.timestamp,
                    length |-> IF Requested(req) THEN RangeSize(req) ELSE g.meta.size,
                    crange |-> IF Requested(req) THEN RangeString(req) ELSE NoHeader]
    IN  IF g.err /= "nil" THEN GetFailed("HEAD", g.err)
        ELSE IF r.inm /= NoHeader /\ r.inm.hash = g.meta.hash
             THEN Reply("HEAD", 304, NoLocation, headers, NoBody)
        ELSE IF r.inm = NoHeader /\ r.ims /= NoHeader /\ r.ims.kind = "date"
                /\ After(g.meta.timestamp, r.ims.t)
             THEN Reply("HEAD", 304, NoLocation, headers, NoBody)
        ELSE Reply("HEAD", 200, NoLocation, headers, NoBody)

\* Server.Get for GET, lines 241-301.
GetAnswerGet(key, r) ==
    LET g == GetRange(key, r.rev.n, parseRangeRequest(r.range).req)
        req == [(IF DropRange(r, g.meta) THEN ZeroRange ELSE parseRangeRequest(r.range).req)
                   EXCEPT !.Total = g.meta.size]
        headers == [etag |-> g.meta.hash,
                    modified |-> g.meta.timestamp,
                    length |-> IF Requested(req) THEN RangeSize(req) ELSE g.meta.size,
                    crange |-> IF Requested(req) THEN RangeString(req) ELSE NoHeader]
        part == CopyN(g.f, g.pos, RangeSize(req))
        whole == CopyAll(g.f, g.pos)
    IN  IF g.err /= "nil" THEN GetFailed("GET", g.err)
        ELSE IF r.inm /= NoHeader /\ r.inm.hash = g.meta.hash
             THEN Reply("GET", 304, NoLocation, headers, NoBody)
        ELSE IF r.inm = NoHeader /\ r.ims /= NoHeader /\ r.ims.kind = "date"
                /\ After(g.meta.timestamp, r.ims.t)
             THEN Reply("GET", 304, NoLocation, headers, NoBody)
        ELSE IF Requested(req)
             THEN Reply("GET", 206, NoLocation, headers,
                        [kind |-> "data", data |-> part.data, err |-> part.err])
        ELSE IF whole.err /= "nil" /\ whole.data = <<>>
             THEN Reply("GET", 500, NoLocation, headers, TextBody)
        ELSE Reply("GET", 200, NoLocation, headers,
                   [kind |-> "data", data |-> whole.data, err |-> whole.err])

\* Server.Get, lines 241-301, behind ServeHTTP's GET and HEAD cases.
GetAnswer(key, r) ==
    IF r.method = "HEAD" THEN GetAnswerHead(key, r) ELSE GetAnswerGet(key, r)

\* The handler is free.
IdleGet == [pc |-> "idle", req |-> NoReq, resp |-> NoResp, from |-> "none",
            looked |-> NoFile]

\* ServeHTTP for GET and HEAD (404 for the empty key) and Server.Get up to the
\* Range header: the response, or "open" to go on.
GetStart(key, r) ==
    IF key = <<>>
    THEN [pc |-> "idle", resp |-> Reply(r.method, 404, NoLocation, NoHeaders, TextBody)]
    ELSE IF r.rev.kind = "absent" THEN [pc |-> "idle", resp |-> GetLatest(key, r)]
    ELSE GetLookup(key, r)

\* The handler takes up a GET or HEAD request: the
\* request is answered, or the handler goes on to open the reader.  While
\* the handler goes on, looked keeps the file as the metadata lookup found it.
ServeGet(r, from) ==
    LET key == TrimLeft(r.path)
        d == escape(key)
        next == GetStart(key, r)
    IN  /\ get.pc = "idle"
        /\ get' = [pc |-> next.pc, req |-> r, resp |-> next.resp, from |-> from,
                   looked |-> IF next.pc = "open" THEN files[d][r.rev.n] ELSE NoFile]
        /\ UNCHANGED <<retain, now, dirs, files, pc, call, result, numSweep,
                       timeSweep, calls, returned, seen, http, checked,
                   temps>>

\* Server.Get, lines 241-301: the reader is opened and the response written.
GetOpen ==
    /\ get.pc = "open"
    /\ get' = [get EXCEPT !.pc = "idle",
                          !.resp = GetAnswer(TrimLeft(get.req.path), get.req),
                          !.looked = NoFile]
    /\ UNCHANGED <<retain, now, dirs, files, pc, call, result, numSweep,
                   timeSweep, calls, returned, seen, http, checked,
                   temps>>

\* A GET or HEAD request with no conditional and no Range header.
PlainGet(method, path, rev) ==
    [method |-> method, path |-> path, rev |-> rev, range |-> NoRange,
     inm |-> NoHeader, ims |-> NoHeader, ifRange |-> NoHeader]

\* A client that is not waiting for or reading an answer sends a request.
ClientGet(r) ==
    /\ get.resp = NoResp
    /\ ServeGet(r, "direct")

\* The client has read the answer.
ClientDone ==
    /\ get.pc = "idle"
    /\ get.resp /= NoResp
    /\ get' = IdleGet
    /\ UNCHANGED <<retain, now, dirs, files, pc, call, result, numSweep,
                   timeSweep, calls, returned, seen, http, checked,
                   temps>>

\* A client that was answered 303 requests the Location.
ClientFollow ==
    /\ get.resp /= NoResp
    /\ get.resp.status = 303
    /\ ServeGet(PlainGet("GET", get.resp.location.path, Number(get.resp.location.rev)),
                "redirect")

\* A client requests the Location of the 201 an upload was answered with.
ClientFetch ==
    \E p \in Procs :
        /\ get.resp = NoResp
        /\ http[p].resp /= NoResp
        /\ http[p].resp.status = 201
        /\ ServeGet(PlainGet("GET", http[p].resp.location.path,
                             Number(http[p].resp.location.rev)), "created")

\* ------------------------------------------------------------------ a reader

\* A client reads revision r of k to the end (Get, then io.Copy of the
\* reader) and keeps what its first successful read has returned.
Read(k, r) ==
    LET g == Get(k, r)
    IN  /\ seen = NoSeen
        /\ g.err = "nil"
        /\ g.body.err = "nil"
        /\ seen' = [key |-> k, revision |-> r, body |-> g.body.data,
                    size |-> g.meta.size, hash |-> g.meta.hash]
        /\ UNCHANGED <<retain, now, dirs, files, pc, call, result, numSweep,
                   timeSweep, calls, returned, http, get, checked,
                   temps>>

\* ------------------------------------------------------------------ specification

\* The store of NewLocalStore on an empty directory, and an idle server.
InitStore ==
    /\ now = 0
    /\ dirs = {}
    /\ files = [d \in DirNames |-> [r \in Revs |-> NoFile]]
    /\ pc = [p \in Writers |-> "idle"]
    /\ call = [p \in Writers |-> NoCall]
    /\ result = [p \in Writers |-> NoResult]
    /\ numSweep = [i \in SweepIds |-> NoTask]
    /\ timeSweep = [s \in Sweepers |-> IdleSweep]
    /\ calls = [k \in AllKeys |-> 0]
    /\ returned = [k \in AllKeys |-> <<>>]
    /\ seen = NoSeen
    /\ http = [p \in Writers |-> [req |-> NoReq, resp |-> NoResp]]
    /\ get = IdleGet
    /\ temps = [p \in Writers |-> NoTemp]

Init ==
    /\ retain \in [Num : 0..MaxNum, Period : 0..MaxPeriod]
    /\ InitStore
    /\ checked = NoCheck

\* The steps of Put after its call.
PutSteps ==
    \/ \E p \in Procs : CreateLatest(p)
    \/ \E p \in Procs : CreateMkdirFail(p)
    \/ \E p \in Procs : CreateFileFail(p)
    \/ \E p \in Procs : CreateFile(p)
    \/ \E p \in Procs : PutStageFail(p)
    \/ \E p \in Procs : \E n \in 0..Len(call[p].body) : PutStageWriteFail(p, n)
    \/ \E p \in Procs : PutStage(p)
    \/ \E p \in Procs : \E n \in 0..Len(call[p].staged) : PutCopyFail(p, n)
    \/ \E p \in Procs : \E n \in 0..Len(call[p].staged) : PutCopy(p, n)
    \/ \E p \in Procs : PutSpawn(p)
    \/ \E p \in Procs : PutReturn(p)
    \/ \E p \in Procs : RemoveClose(p)
    \/ \E p \in Procs : RemoveUnlink(p)

\* Put called with a key of keys, and its steps.
PutNext(keys) ==
    \/ \E p \in Procs, k \in keys : PutReadFail(p, k)
    \/ \E p \in Procs, k \in keys, body \in Bodies : PutBegin(p, k, body)
    \/ PutSteps

\* The steps of the sweepByNum goroutines.
NumSweepNext ==
    \/ \E i \in SweepIds : SweepByNumList(i)
    \/ \E i \in SweepIds, r \in Revs : SweepByNumRemove(i, r)

\* The steps of the period sweeper.
TimeSweepNext ==
    \/ Sweep(Sweeper)
    \/ \E k \in Keys : SweepByTimeList(Sweeper, k)
    \/ SweepByTimeLatest(Sweeper)
    \/ \E r \in Revs : SweepByTimeStep(Sweeper, r)

\* One uploader of one key, both sweeps, the clock.
Next == PutNext({KeyAB}) \/ NumSweepNext \/ TimeSweepNext \/ Tick

Spec == Init /\ [][Next]_vars

\* Puts to two keys and the count sweeps, without the period sweeper.
InitKeys == Init /\ retain.Period = 0

NextKeys == PutNext(Keys) \/ NumSweepNext

SpecKeys == InitKeys /\ [][NextKeys]_vars

\* Puts to two keys that differ only in a percent-encoded character, and
\* the count sweeps.
EscapedKeys == {KeyAB, KeyPct}

NextEscaped == PutNext(EscapedKeys) \/ NumSweepNext

SpecEscaped == InitKeys /\ [][NextEscaped]_vars

\* Two callers of Put on one key, whose calls can overlap, and the count
\* sweeps.  Where both write the same file the record holds the fields as
\* they were last written.
\* The body each caller uploads.
BodyOf(p) == IF p = Uploader THEN BodyX ELSE BodyYZ

NextOverlap ==
    \/ \E p \in Writers : PutReadFail(p, KeyAB)
    \/ \E p \in Writers : PutBegin(p, KeyAB, BodyOf(p))
    \/ \E p \in Writers : CreateLatest(p)
    \/ \E p \in Writers : CreateMkdirFail(p)
    \/ \E p \in Writers : CreateFileFail(p)
    \/ \E p \in Writers : CreateFile(p)
    \/ \E p \in Writers : PutStageFail(p)
    \/ \E p \in Writers : PutStage(p)
    \/ \E p \in Writers : \E n \in 0..Len(call[p].staged) : PutCopyFail(p, n)
    \/ \E p \in Writers : \E n \in 0..Len(call[p].staged) : PutCopy(p, n)
    \/ \E p \in Writers : PutSpawn(p)
    \/ \E p \in Writers : PutReturn(p)
    \/ \E p \in Writers : RemoveClose(p)
    \/ \E p \in Writers : RemoveUnlink(p)
    \/ NumSweepNext

SpecOverlap == InitKeys /\ [][NextOverlap]_vars

\* One uploader, the period sweeper (Num = 0: every sweepByNum returns at
\* once) and a reader.
InitRead == Init /\ retain = [Num |-> 0, Period |-> 1]

NextRead ==
    \/ PutNext({KeyAB})
    \/ \E i \in SweepIds : SweepByNumList(i)
    \/ TimeSweepNext
    \/ Tick
    \/ \E r \in Revs : Read(KeyAB, r)

SpecRead == InitRead /\ [][NextRead]_vars

\* The requests of the HTTP model.
Paths == {<<"/">>, <<"/", "a", "/">>, <<"/", "a", "/", "b">>}

NoAuth == [scheme |-> "none", raw |-> TokenString(NewTokenWithSalt(Secret1, KeyA, "salt1"))]

Auths ==
    {NoAuth}
    \cup {[scheme |-> "basic", raw |-> TokenString(NewTokenWithSalt(Secret1, KeyDir, "salt1"))]}
    \cup {[scheme |-> "bearer", raw |-> [TokenString(NewTokenWithSalt(Secret1, KeyDir, "salt1"))
                                           EXCEPT !.len = 10]]}
    \cup {[scheme |-> "bearer", raw |-> [TokenString(NewTokenWithSalt(Secret1, KeyDir, "salt1"))
                                           EXCEPT !.prefix = "s1:"]]}
    \cup {[scheme |-> "bearer", raw |-> TokenString(NewTokenWithSalt(Secret2, KeyDir, "salt1"))]}
    \cup {[scheme |-> "bearer", raw |-> TokenString(NewTokenWithSalt(Secret1, k, "salt1"))] :
              k \in {KeyA, KeyDir}}

Requests ==
    [method : {"POST"}, path : Paths, auth : Auths, body : {BodyX}]
    \cup [method : {"DELETE", "OPTIONS"}, path : {<<"/", "a", "/", "b">>}, auth : {NoAuth},
           body : {BodyX}]

\* The POST path of the server, without retention.
InitHttp == Init /\ retain = [Num |-> 0, Period |-> 0]

NextHttp ==
    \/ \E p \in Procs, r \in Requests : ServeHTTP(p, r)
    \/ PutSteps
    \/ \E p \in Procs : PostRespond(p)
    \/ \E i \in SweepIds : SweepByNumList(i)

SpecHttp == InitHttp /\ [][NextHttp]_vars

\* The uploads of the GET models: POST /a/b with a token minted for "a/".
Uploads(bodies) ==
    [method : {"POST"}, path : {<<"/", "a", "/", "b">>},
     auth : {[scheme |-> "bearer",
              raw |-> TokenString(NewTokenWithSalt(Secret1, KeyDir, "salt1"))]},
     body : bodies]

\* Requests whose path gives the empty key, of every method, with and
\* without a token, next to uploads to a/b.
EmptyPaths == {<<"/">>, <<"/", "/">>}

EmptyKeyPosts ==
    [method : {"POST", "DELETE"}, path : EmptyPaths,
     auth : {NoAuth, [scheme |-> "bearer",
                      raw |-> TokenString(NewTokenWithSalt(Secret1, KeyDir, "salt1"))]},
     body : {BodyX}]

EmptyKeyGets ==
    {PlainGet(m, path, rev) : m \in {"GET", "HEAD"}, path \in EmptyPaths,
                              rev \in {Absent, Number(1)}}

NextEmptyKey ==
    \/ \E p \in Procs, r \in EmptyKeyPosts \cup Uploads({BodyX}) : ServeHTTP(p, r)
    \/ PutSteps
    \/ \E p \in Procs : PostRespond(p)
    \/ \E i \in SweepIds : SweepByNumList(i)
    \/ \E r \in EmptyKeyGets : ClientGet(r)
    \/ ClientDone

SpecEmptyKey == InitHttp /\ [][NextEmptyKey]_vars

\* The values of the rev parameter: none, not a number, negative, 0..MaxPuts.
Revisions == {Absent, Junk, Number(-1)} \cup {Number(n) : n \in 0..MaxPuts}

\* Range headers: bytes=A-B, bytes=A-, bytes=-N, another unit, bad numbers.
RangeHeaders ==
    {BytesRange(Number(a), Number(b)) : a, b \in 0..MaxOffset}
    \cup {BytesRange(Number(a), Absent) : a \in 0..MaxOffset}
    \cup {BytesRange(Absent, Number(n)) : n \in 1..MaxOffset}
    \cup {[unit |-> "chunk=", from |-> Number(0), to |-> Number(1)],
          BytesRange(Junk, Number(1)), BytesRange(Number(0), Junk)}

\* Entity tags and dates of the conditional headers; the date before time 0
\* is a date before the server started.
Etag(body) == [kind |-> "etag", hash |-> Hash(body)]
Date(t) == [kind |-> "date", t |-> t]
Dates == {Date(t) : t \in -1..0}

\* Requests for the lookup: every rev of a/b; the empty key and a key that
\* is never stored.
LookupRequests ==
    {PlainGet(m, <<"/", "a", "/", "b">>, rev) : m \in {"GET", "HEAD"}, rev \in Revisions}
    \cup {PlainGet(m, path, rev) : m \in {"GET", "HEAD"},
                                   path \in {<<"/">>, <<"/", "/">>, <<"/", "a">>},
                                   rev \in {Absent, Number(1)}}

\* Requests for revision 1 of a/b with a Range header.
RangeRequests ==
    {[PlainGet(m, <<"/", "a", "/", "b">>, Number(1)) EXCEPT !.range = h] :
        m \in {"GET", "HEAD"}, h \in RangeHeaders}

\* Requests for revision 1 of a/b with conditional headers, and with a range
\* under a conditional header.
CondRequests ==
    {[PlainGet(m, <<"/", "a", "/", "b">>, Number(1)) EXCEPT !.inm = inm, !.ims = ims] :
        m \in {"GET", "HEAD"},
        inm \in {NoHeader, Etag(BodyYZ), Etag(BodyX)},
        ims \in {NoHeader, Junk} \cup Dates}
    \cup {[PlainGet(m, <<"/", "a", "/", "b">>, Number(1))
              EXCEPT !.range = BytesRange(Number(0), Number(0)), !.inm = inm, !.ifRange = c] :
             m \in {"GET", "HEAD"},
             inm \in {NoHeader, Etag(BodyYZ)},
             c \in {NoHeader, Etag(BodyYZ), Etag(BodyX)} \cup Dates}

GetRequests == LookupRequests \cup RangeRequests \cup CondRequests

\* The read path of the server: up to MaxUploads uploads of one body to a/b,
\* the count sweep with Retain.Num = 1, and a client sending GET and HEAD
\* requests.
InitGet == Init /\ retain = [Num |-> 1, Period |-> 0]

NextGet ==
    \/ \E p \in Procs, r \in Uploads({BodyYZ}) :
           calls[KeyAB] < MaxUploads /\ ServeHTTP(p, r)
    \/ PutSteps
    \/ \E p \in Procs : PostRespond(p)
    \/ NumSweepNext
    \/ \E r \in GetRequests : ClientGet(r)
    \/ GetOpen
    \/ ClientDone

SpecGet == InitGet /\ [][NextGet]_vars

\* A client that asks for the latest revision of a/b and follows the
\* redirect, and a client that requests the Location of a 201, while one
\* uploader posts to a/b and the count sweeps run.
NextFollow ==
    \/ \E p \in Procs, r \in Uploads(Bodies) :
           calls[KeyAB] < MaxUploads /\ ServeHTTP(p, r)
    \/ PutSteps
    \/ \E p \in Procs : PostRespond(p)
    \/ NumSweepNext
    \/ ClientGet(PlainGet("GET", <<"/", "a", "/", "b">>, Absent))
    \/ ClientFollow
    \/ ClientFetch
    \/ GetOpen
    \/ ClientDone

SpecFollow == InitGet /\ [][NextFollow]_vars

\* The keys and tokens of the token check.
TokenKeys == UNION {[1..n -> {"a", "/"}] : n \in 1..MaxKeyLen}

Tokens == [salt : Salts, digest : [secret : Secrets, salt : Salts, key : TokenKeys]]

\* A secret, a token and a key are drawn; the check is then applied to them.
InitToken ==
    /\ retain = [Num |-> 0, Period |-> 0]
    /\ InitStore
    /\ checked \in [secret : Secrets, token : Tokens, key : TokenKeys,
                    done : {FALSE}, ok : {FALSE}]

NextToken == CheckToken

SpecToken == InitToken /\ [][NextToken]_vars

\* The keys stored while the sweeper ticks.
TickKeys == {KeyAB}

\* The steps of the sweepers of two ticks; the second tick is one that
\* comes while the sweep of the first is running.
SweeperNext(s) ==
    \/ (s = Overlapping => timeSweep[Sweeper].pc /= "idle") /\ Sweep(s)
    \/ \E k \in Keys : SweepByTimeList(s, k)
    \/ SweepByTimeLatest(s)
    \/ \E r \in Revs : SweepByTimeStep(s, r)

TimeSweepNextAll == \E s \in Sweepers : SweeperNext(s)

\* No Put is running: the revisions stored and the count sweeps not yet
\* finished are noted, and from here on only sweeps run.
Settle ==
    /\ checked = NoCheck
    /\ \A p \in Writers : pc[p] = "idle"
    /\ Stored(KeyAB) /= {}
    /\ checked' = [files |-> files[escape(KeyAB)], tasks |-> numSweep]
    /\ UNCHANGED <<retain, now, dirs, files, pc, call, result, numSweep,
                   timeSweep, calls, returned, seen, http, get,
                   temps>>

\* Puts and the clock until the store has settled; then, at that time, the
\* count sweeps the Puts started and the period sweeps of two ticks, in any
\* order and overlapping.
NextSweeps ==
    \/ /\ checked = NoCheck
       /\ \/ \E p \in Procs : PutReadFail(p, KeyAB)
          \/ \E p \in Procs : PutBegin(p, KeyAB, BodyX)
          \/ PutSteps
          \/ Tick
    \/ Settle
    \/ checked /= NoCheck /\ (NumSweepNext \/ TimeSweepNextAll)

\* Both retention limits are set.
InitSweeps == Init /\ retain.Num > 0 /\ retain.Period > 0

SpecSweeps == InitSweeps /\ [][NextSweeps]_vars

\* The server with a period limit only: Puts of the keys (one body) that
\* succeed or fail while staging the body, the clock, and the sweepers of
\* the ticks.
InitTicks == Init /\ retain = [Num |-> 0, Period |-> MaxPeriod]

NextTicks ==
    \/ \E p \in Procs, k \in TickKeys : PutBegin(p, k, BodyX)
    \/ \E p \in Procs : CreateLatest(p)
    \/ \E p \in Procs : CreateFile(p)
    \/ \E p \in Procs : PutStageFail(p)
    \/ \E p \in Procs : PutStage(p)
    \/ \E p \in Procs : PutCopy(p, Len(call[p].staged))
    \/ \E p \in Procs : PutSpawn(p)
    \/ \E p \in Procs : PutReturn(p)
    \/ \E p \in Procs : RemoveClose(p)
    \/ \E p \in Procs : RemoveUnlink(p)
    \/ Tick
    \/ TimeSweepNextAll

SpecTicks == InitTicks /\ [][NextTicks]_vars

\* The ticker fires every interval for as long as the server runs, and the
\* scheduler runs every goroutine that can take a step: each sweeper's steps
\* are weakly fair.
FairTicks == \A s \in Sweepers : WF_vars(SweeperNext(s))

SpecFairTicks == SpecTicks /\ FairTicks

\* The payload of n bytes whose bytes are all different, and the file a
\* successful Put of it leaves.
ArtifactOf(n) == [i \in 1..n |-> DecimalDigits[i]]

ArtifactFile(body) ==
    GzipClose(CreatedFile, PutMetadata(KeyAB, 1, Staged(body)), body)

\* A reader is opened on an artifact of up to MaxOffset bytes; reads and
\* seeks follow in any order.
InitSeek ==
    /\ retain = [Num |-> 0, Period |-> 0]
    /\ InitStore
    /\ checked \in {ReaderOver(ArtifactFile(ArtifactOf(n))) : n \in 0..MaxOffset}

NextSeek ==
    \/ \E n \in 1..MaxOffset : ReaderRead(n)
    \/ \E offset \in -1..(MaxOffset + 1) :
           \E whence \in {"start", "current", "end"} : ReaderSeek(offset, whence)

SpecSeek == InitSeek /\ [][NextSeek]_vars

\* The texts after "bytes=": up to MaxSpecLen characters.
RangeAlphabet == {"0", "1", "2", "-", ",", " ", "a"}

RangeTexts ==
    {<<>>, ChunkUnit \o <<"0", "-", "1">>}
    \cup {BytesUnit \o tail :
             tail \in UNION {[1..n -> RangeAlphabet] : n \in 0..MaxSpecLen}}

\* A header and a size are drawn; the parser is then applied.
InitRange ==
    /\ retain = [Num |-> 0, Period |-> 0]
    /\ InitStore
    /\ checked \in [header : RangeTexts, total : 0..MaxOffset, done : {FALSE},
                    res : {[err |-> "nil", req |-> ZeroRange]}, size : {0}]

NextRange == ParseRange

SpecRange == InitRange /\ [][NextRange]_vars

\* ------------------------------------------------------------------ claims

\* Handlers inside a Put to k.
InPut(k) == {p \in Procs : pc[p] /= "idle" /\ call[p].key = k}

\* Every Put to k that has returned has succeeded.
AllSucceeded(k) == calls[k] = Len(returned[k]) + Cardinality(InPut(k))

\* A revision a reader gets whole: Get succeeds and the body reads to its end.
Readable(k, r) == Get(k, r).err = "nil" /\ Get(k, r).body.err = "nil"

\* C1: when the Puts to a key all succeed, the i-th of them returns revision
\* i, whatever the Puts to the other key and the count sweeps in between.
C1_Sequential ==
    \A k \in Keys :
        AllSucceeded(k) => \A i \in 1..Len(returned[k]) : returned[k][i] = i

C1_Witness ==
    /\ retain.Num = 1
    /\ returned[KeyA] = <<1, 2>> /\ calls[KeyA] = 2
    /\ returned[KeyAB] = <<1>>
    /\ Stored(KeyA) = {2}

\* C2: after Put(K, body) has returned N, while revision N is stored and is
\* not a file a later Put is writing after a sweep removed N, Get(K, N) gives
\* body whole, with key K, revision N, size len(body) and hash MD5(body);
\* and Latest(K) = N until the next Put creates its file.
C2_PutThenGet ==
    \A p \in Procs :
        (/\ result[p] /= NoResult
         /\ result[p].err = "nil"
         /\ result[p].revision \in Stored(result[p].key))
        => LET k == result[p].key
               n == result[p].revision
               g == Get(k, n)
           IN  /\ pc[p] \in {"idle", "latest", "create"}
                  => Latest(k) = [revision |-> n, err |-> "nil"]
               /\ (pc[p] \in {"idle", "latest", "create"} \/ call[p].revision /= n)
                  => /\ g.err = "nil"
                     /\ g.body = [data |-> result[p].body, err |-> "nil"]
                     /\ g.meta.key = k
                     /\ g.meta.revision = n
                     /\ g.meta.size = Len(result[p].body)
                     /\ g.meta.hash = Hash(result[p].body)

C2_Witness ==
    /\ pc[Uploader] = "idle"
    /\ result[Uploader] /= NoResult
    /\ result[Uploader].err = "nil"
    /\ result[Uploader].revision = 2
    /\ result[Uploader].body = BodyYZ
    /\ Get(KeyAB, 2).err = "nil"

\* C3: the successful Puts to a key return strictly increasing revisions.
C3_NeverReused ==
    \A k \in Keys : \A i, j \in 1..Len(returned[k]) :
        i < j => returned[k][i] < returned[k][j]

\* C4: a key that has had a successful Put keeps a readable revision.
C4_KeepsReadable ==
    \A k \in Keys : returned[k] /= <<>> => \E r \in Revs : Readable(k, r)

\* C5: while a Put writes revision N, Metadata and Get of N either report
\* that the revision does not exist or give the final metadata and the whole
\* body.
C5_NoPartialRead ==
    \A p \in Procs :
        pc[p] \in {"stage", "copy", "spawn", "return", "remove", "unlink"}
        => LET k == call[p].key
               n == call[p].revision
               final == PutMetadata(k, n, Staged(call[p].body))
               m == Metadata(k, n)
               g == Get(k, n)
               absent == {"ErrNoSuchArtifact", "ErrRevisionDeleted"}
           IN  /\ \/ m.err \in absent
                  \/ /\ m.err = "nil"
                     /\ [m.meta EXCEPT !.timestamp = ZeroTime]
                            = [final EXCEPT !.timestamp = ZeroTime]
                     /\ files[escape(k)][n].closed
               /\ \/ g.err \in absent
                  \/ /\ g.err = "nil"
                     /\ g.body = [data |-> call[p].body, err |-> "nil"]

\* C6: a successful read of (K, N) returns the body, the size and the hash
\* that an earlier successful read of (K, N) has returned.
C6_Immutable ==
    (seen /= NoSeen /\ Readable(seen.key, seen.revision))
    => LET g == Get(seen.key, seen.revision)
       IN  /\ g.body.data = seen.body
           /\ g.meta.size = seen.size
           /\ g.meta.hash = seen.hash

Minted(s, k) == {NewTokenWithSalt(s, k, salt) : salt \in Salts}

\* The prefixes of k that end in '/'.
SlashPrefixes(k) == {SubSeq(k, 1, i) : i \in {j \in 1..Len(k) : k[j] = "/"}}

\* C8: IsCorrectToken(s, t, K) is true exactly when t was minted with s for
\* K itself or for a prefix of K that ends in '/'.
C8_TokenScope ==
    (checked /= NoCheck /\ checked.done)
    => (checked.ok <=> \E k \in {checked.key} \cup SlashPrefixes(checked.key) :
                           checked.token \in Minted(checked.secret, k))

C8_Witness ==
    /\ checked /= NoCheck
    /\ checked.done
    /\ checked.ok
    /\ checked.secret = Secret2
    /\ checked.key = <<"a", "/", "a">>
    /\ checked.token = NewTokenWithSalt(Secret2, <<"a", "/">>, "salt2")

\* The four cases of a POST that is not authorized.
Unauthorized(r, key) ==
    \/ r.auth.scheme = "none"
    \/ r.auth.scheme /= "bearer"
    \/ ParseToken(r.auth.raw).err /= "nil"
    \/ \A k \in {key} \cup SlashPrefixes(key) :
           ParseToken(r.auth.raw).token \notin Minted(Secret1, k)

\* C9: a POST that is not authorized is answered 403 and leaves the store
\* unchanged: no directory, no revision file, and no Put is started.
C9_ForbiddenPost ==
    [][\A p \in Procs :
          (/\ http'[p] /= http[p]
           /\ http'[p].req /= http[p].req \/ http[p].resp /= NoResp
           /\ http'[p].req.method = "POST"
           /\ TrimLeft(http'[p].req.path) /= <<>>
           /\ Unauthorized(http'[p].req, TrimLeft(http'[p].req.path)))
          => /\ http'[p].resp /= NoResp
             /\ http'[p].resp.status = 403
             /\ dirs' = dirs
             /\ files' = files
             /\ pc'[p] = "idle"
             /\ calls' = calls]_vars

C9_Witness ==
    /\ http[Uploader].req /= NoReq
    /\ http[Uploader].req.method = "POST"
    /\ http[Uploader].req.path = <<"/", "a", "/", "b">>
    /\ http[Uploader].req.auth =
           [scheme |-> "bearer",
            raw |-> TokenString(NewTokenWithSalt(Secret1, KeyA, "salt1"))]
    /\ http[Uploader].resp /= NoResp
    /\ http[Uploader].resp.status = 403
    /\ Stored(KeyAB) = {1}

\* C10: every key with a revision file satisfies the key rule.
C10_StoredKeysValid ==
    \A k \in AllKeys : Stored(k) /= {} => VerifyKey(k) = "nil"

\* A POST that reached Store.Put and was answered: the key is not empty and
\* the Authorization header carries a token minted for the key or a prefix.
Accepted(p) ==
    /\ http[p].req /= NoReq
    /\ http[p].req.method = "POST"
    /\ http[p].resp /= NoResp
    /\ TrimLeft(http[p].req.path) /= <<>>
    /\ ~Unauthorized(http[p].req, TrimLeft(http[p].req.path))

\* C11: an authorized POST to /K whose Put succeeded is answered 201 with
\* Location /K?rev=N, N being the revision that Put created for K (the file N
\* holds the body of the request); one whose Put failed is answered 500
\* without a Location.
C11_PostAnswer ==
    \A p \in Procs :
        Accepted(p) =>
            LET key == TrimLeft(http[p].req.path)
            IN  /\ result[p] /= NoResult
                /\ result[p].key = key
                /\ IF result[p].err = "nil"
                   THEN /\ http[p].resp.status = 201
                        /\ http[p].resp.location =
                               [path |-> http[p].req.path, rev |-> result[p].revision]
                        /\ returned[key] /= <<>>
                        /\ result[p].revision = returned[key][Len(returned[key])]
                        /\ result[p].revision \in Stored(key)
                        /\ Get(key, result[p].revision).err = "nil"
                        /\ Get(key, result[p].revision).body =
                               [data |-> http[p].req.body, err |-> "nil"]
                   ELSE /\ http[p].resp.status = 500
                        /\ http[p].resp.location = NoLocation

\* A second upload to a/b was answered 201 with rev=2 after one Put failed.
C11_Witness ==
    /\ Accepted(Uploader)
    /\ http[Uploader].req.path = <<"/", "a", "/", "b">>
    /\ http[Uploader].resp.status = 201
    /\ http[Uploader].resp.location.rev = 2
    /\ calls[KeyAB] = 3

\* The step in which the handler of a GET or HEAD request writes its answer.
Answers == get.resp = NoResp /\ get'.resp /= NoResp

\* The answer is the whole artifact: 200, the body read to its end, and the
\* length and entity tag of that body.
Complete(resp, body) ==
    /\ resp.status = 200
    /\ resp.body = [kind |-> "data", data |-> body, err |-> "nil"]
    /\ resp.headers.length = Len(body)
    /\ resp.headers.etag = Hash(body)
    /\ resp.headers.crange = NoHeader

\* C12: when a 201 is written the file of the new revision is closed and
\* holds the body of the POST; and a GET of the Location of a 201, sent after
\* that response, is answered with the complete artifact as long as the
\* revision is stored: with the body of the POST while the uploader has sent
\* no further request, and with a complete body in any case.
C12_AfterCreated ==
    [][/\ \A p \in Procs :
              (http[p].resp = NoResp /\ http'[p].resp /= NoResp /\ http'[p].resp.status = 201)
              => LET f == files'[escape(TrimLeft(http'[p].req.path))]
                                  [http'[p].resp.location.rev]
                 IN  /\ pc'[p] = "idle"
                     /\ f /= NoFile
                     /\ f.hdr /\ f.closed
                     /\ f.meta /= NoMeta
                     /\ f.meta.size = Len(http'[p].req.body)
                     /\ f.data = http'[p].req.body
       /\ (/\ Answers
           /\ get'.from = "created"
           /\ get'.req.rev.n \in Stored(TrimLeft(get'.req.path)))
          => /\ \E body \in Bodies : Complete(get'.resp, body)
             /\ \A p \in Procs :
                    (/\ http[p].resp /= NoResp
                     /\ http[p].resp.status = 201
                     /\ http[p].resp.location =
                            [path |-> get'.req.path, rev |-> get'.req.rev.n])
                    => Complete(get'.resp, http[p].req.body)]_vars

\* The Location of the 201 for revision 2 was requested and answered with the
\* body of that POST.
C12_Witness ==
    /\ get.from = "created"
    /\ get.resp /= NoResp
    /\ get.req.rev = Number(2)
    /\ http[Uploader].resp /= NoResp
    /\ http[Uploader].resp.status = 201
    /\ http[Uploader].resp.location.rev = 2
    /\ Complete(get.resp, http[Uploader].req.body)
    /\ http[Uploader].req.body = BodyX

\* C13: a client that was redirected by GET /K to /K?rev=N and requests it
\* receives the complete artifact N or 410, never 404, 500 or a partial body.
C13_RedirectComplete ==
    [][(Answers /\ get'.from = "redirect")
       => \/ \E body \in Bodies : Complete(get'.resp, body)
          \/ get'.resp.status = 410]_vars

\* C14: GET /K without rev is answered 303 with Location /K?rev=L, L >= 1
\* being the highest revision of K with a file at that moment, and 404 when
\* no revision of K has a file and no Put to K has ever succeeded.
C14_LatestRedirect ==
    [][(/\ Answers
        /\ get'.req.method = "GET"
        /\ get'.req.rev = Absent
        /\ TrimLeft(get'.req.path) /= <<>>)
       => LET key == TrimLeft(get'.req.path)
          IN  IF Stored(key) /= {}
              THEN /\ get'.resp.status = 303
                   /\ get'.resp.location = [path |-> get'.req.path, rev |-> Max(Stored(key))]
                   /\ get'.resp.location.rev >= 1
              ELSE returned[key] = <<>> => get'.resp.status = 404]_vars

\* The store as GET /K?rev=R finds it.
BadRev(rev) == rev.kind = "junk" \/ rev.n < 0
NoFileOf(key, rev) == rev.n \notin Stored(key)
\* The file of the revision is there and cannot be opened or decoded.
Unreadable(f) == f /= NoFile /\ (~f.hdr \/ f.meta = NoMeta)

\* C15: GET /K?rev=R (without a Range header) is answered 400 when R is not a
\* non-negative integer; otherwise 404 when R has no file and no higher
\* revision of K has one, 410 when R has no file and a higher revision has
\* one, and 500 when the file of R is there at the lookup and cannot be
\* opened or decoded.
C15_RevisionStatus ==
    [][(/\ get'.req /= NoReq
        /\ get'.req.method = "GET"
        /\ get'.req.rev /= Absent
        /\ get'.req.range = NoRange
        /\ TrimLeft(get'.req.path) /= <<>>)
       => LET key == TrimLeft(get'.req.path)
              rev == get'.req.rev
          IN  /\ (get.pc = "idle" /\ get' /= get /\ get' /= IdleGet /\ BadRev(rev))
                 => get'.resp /= NoResp /\ get'.resp.status = 400
              /\ (get.pc = "idle" /\ get' /= get /\ get' /= IdleGet /\ ~BadRev(rev)
                    /\ NoFileOf(key, rev))
                 => /\ get'.resp /= NoResp
                    /\ get'.resp.status =
                           IF \E r \in Stored(key) : r > rev.n THEN 410 ELSE 404
              /\ (Answers /\ get.pc = "open" /\ Unreadable(get.looked))
                 => get'.resp.status = 500]_vars

\* Revision n of Key a/b was returned by a successful Put and its file is
\* there, closed.
Published(n) ==
    /\ n \in Stored(KeyAB)
    /\ \E i \in 1..Len(returned[KeyAB]) : returned[KeyAB][i] = n
    /\ files[escape(KeyAB)][n].closed

\* The payload of a published revision.
Payload(n) == files[escape(KeyAB)][n].data

\* The step in which a GET for a published revision of a/b, sent without
\* conditional headers, is answered after its reader was opened.
AnswersGet ==
    /\ Answers
    /\ get.pc = "open"
    /\ get.req.method = "GET"
    /\ TrimLeft(get.req.path) = KeyAB
    /\ Published(get.req.rev.n)
    /\ get.req.inm = NoHeader
    /\ get.req.ims = NoHeader
    /\ get.req.ifRange = NoHeader

ValidRange(h) == h /= NoRange /\ parseRangeRequest(h).err = "nil"

\* The range of the header lies outside [0, size]: its end (the byte after B,
\* or size for an open end) or its start is beyond size, or it asks for more
\* than size last bytes.
Outside(h, size) ==
    \/ h.from.kind = "num" /\ h.to.kind = "num" /\ h.to.n + 1 > size
    \/ h.from.kind = "num" /\ h.to.kind = "absent" /\ h.from.n > size
    \/ h.from.kind = "absent" /\ h.to.kind = "num" /\ h.to.n > size

AnswersConditional ==
    /\ Answers
    /\ get.pc = "open"
    /\ get.req.method = "GET"
    /\ TrimLeft(get.req.path) = KeyAB
    /\ Published(get.req.rev.n)
    /\ get.req.range = NoRange
    /\ get.req.ifRange = NoHeader

\* 304 with the headers of the artifact and no body.
NotModified(resp, payload) ==
    /\ resp.status = 304
    /\ resp.body = NoBody
    /\ resp.headers.etag = Hash(payload)

\* C18: If-None-Match equal to the hash gives 304 without body; with another
\* If-None-Match the artifact is served whatever If-Modified-Since says;
\* without If-None-Match, If-Modified-Since gives 304 exactly when it is a
\* date and the artifact's timestamp is after it; otherwise the artifact is
\* served.
C18_Conditional ==
    [][AnswersConditional
       => LET payload == Payload(get.req.rev.n)
              stamp == files[escape(KeyAB)][get.req.rev.n].meta.timestamp
              unchanged ==
                  IF get.req.inm /= NoHeader THEN get.req.inm.hash = Hash(payload)
                  ELSE /\ get.req.ims /= NoHeader
                       /\ get.req.ims.kind = "date"
                       /\ ~stamp.zero
                       /\ stamp.t > get.req.ims.t
          IN  IF unchanged THEN NotModified(get'.resp, payload)
              ELSE Complete(get'.resp, payload)]_vars

\* A request with only If-Modified-Since, a date before the artifact's
\* timestamp, was answered 304.
C18_Witness ==
    /\ get.resp /= NoResp
    /\ get.req.method = "GET"
    /\ get.req.inm = NoHeader
    /\ get.req.ims = Date(-1)
    /\ get.req.range = NoRange
    /\ get.resp.status = 304
    /\ get.resp.body = NoBody

\* C19: a HEAD request is answered with the status, Location and headers
\* that the same request sent as GET gets in the same state of the store,
\* and with no body.
C19_HeadAsGet ==
    [][(Answers /\ get'.req.method = "HEAD")
       => LET r == [get'.req EXCEPT !.method = "GET"]
              key == TrimLeft(r.path)
              asGet == IF get.pc = "open" THEN GetAnswer(key, r)
                       ELSE GetStart(key, r).resp
          IN  /\ asGet /= NoResp
              /\ get'.resp.status = asGet.status
              /\ get'.resp.location = asGet.location
              /\ get'.resp.headers = asGet.headers
              /\ get'.resp.body = NoBody]_vars

\* C20: a request whose path is "/" or only slashes is answered 404 in the
\* step that takes it up, and that step changes no directory and no file and
\* starts no Put and no sweep.
C20_EmptyKey ==
    [][/\ \A p \in Procs :
              (/\ http'[p] /= http[p]
               /\ http'[p].req /= http[p].req \/ http[p].resp /= NoResp
               /\ \A i \in 1..Len(http'[p].req.path) : http'[p].req.path[i] = "/")
              => /\ http'[p].resp /= NoResp
                 /\ http'[p].resp.status = 404
                 /\ http'[p].resp.location = NoLocation
                 /\ <<dirs, files, pc, call, calls, numSweep, timeSweep>>'
                        = <<dirs, files, pc, call, calls, numSweep, timeSweep>>
       /\ (/\ get.resp = NoResp
           /\ get'.req /= NoReq
           /\ get' /= get
           /\ \A i \in 1..Len(get'.req.path) : get'.req.path[i] = "/")
          => /\ get'.resp /= NoResp
             /\ get'.resp.status = 404
             /\ get'.resp.location = NoLocation
             /\ get'.pc = "idle"
             /\ <<dirs, files, pc, call, calls, numSweep, timeSweep>>'
                    = <<dirs, files, pc, call, calls, numSweep, timeSweep>>]_vars

\* POST // with a valid token was answered 404 while a/b has a revision, and
\* GET // was answered 404.
C20_Witness ==
    /\ http[Uploader].req /= NoReq
    /\ http[Uploader].req.method = "POST"
    /\ http[Uploader].req.path = <<"/", "/">>
    /\ http[Uploader].req.auth.scheme = "bearer"
    /\ http[Uploader].resp /= NoResp
    /\ http[Uploader].resp.status = 404
    /\ Stored(KeyAB) = {1}
    /\ get.resp /= NoResp
    /\ get.req.path = <<"/", "/">>
    /\ get.req.method = "GET"
    /\ get.resp.status = 404

\* The step in which the server takes up a request of handler p.
TakesUp(p) ==
    /\ http'[p] /= http[p]
    /\ http'[p].req /= http[p].req \/ http[p].resp /= NoResp

C22_NothingRemoved ==
    (retain.Num = 0 /\ retain.Period = 0)
    => \A k \in AllKeys : \A i \in 1..Len(returned[k]) :
           /\ returned[k][i] \in Stored(k)
           /\ Readable(k, returned[k][i])
           /\ Get(k, returned[k][i]).meta.size = Len(Get(k, returned[k][i]).body.data)
           /\ Get(k, returned[k][i]).meta.hash = Hash(Get(k, returned[k][i]).body.data)

\* Without retention three Puts have returned, the last sweepByNum goroutine
\* has run, the clock is at its end, and revisions 1, 2 and 3 are stored.
C22_Witness ==
    /\ retain.Num = 0 /\ retain.Period = 0
    /\ returned[KeyAB] = <<1, 2, 3>>
    /\ Stored(KeyAB) = {1, 2, 3}
    /\ \A i \in SweepIds : numSweep[i] /= NoTask /\ numSweep[i].pc = "done"
    /\ now = MaxTime

\* ------------------------------------------------------------------ C23

\* A step of the sweepByNum goroutine i.
SweepStep(i) == numSweep[i] /= NoTask /\ numSweep'[i] /= numSweep[i]

\* A step of the Put of process p after its call.
PutStep(p) == pc[p] /= "idle" /\ (pc'[p] /= pc[p] \/ call'[p] /= call[p])

\* The key whose Put or count sweep takes the step.
ActsOn(k) ==
    \/ \E i \in SweepIds : SweepStep(i) /\ numSweep[i].key = k
    \/ /\ \A i \in SweepIds : ~SweepStep(i)
       /\ \E p \in Procs : PutStep(p) /\ call[p].key = k

\* C23: a step of a Put to a key or of that Put's count sweep changes no
\* file and creates no directory of another key, also when the two keys
\* differ only in a percent-encoded character ("a/b" and "a%2Fb").
C23_OtherKeysUnchanged ==
    [][\A k \in AllKeys :
          (\/ files'[escape(k)] /= files[escape(k)]
           \/ (escape(k) \in dirs') /= (escape(k) \in dirs)
           \/ Stored(k)' /= Stored(k)
           \/ Latest(k)' /= Latest(k))
          => ActsOn(k)]_vars

\* Both keys hold revisions and the count sweep of "a/b" has removed one.
C23_Witness ==
    /\ retain.Num = 1
    /\ Stored(KeyAB) = {2}
    /\ Stored(KeyPct) = {1}
    /\ returned[KeyAB] = <<1, 2>>
    /\ returned[KeyPct] = <<1>>

\* ------------------------------------------------------------------ C24

\* Revisions a caller asks for: the stored range and one above it.
AskedRevs == 1..(MaxPuts + 1)

\* C24: for every key and revision that has no file, Get returns what
\* Metadata returns, ErrRevisionDeleted when a higher revision is stored and
\* ErrNoSuchArtifact otherwise; it never succeeds and never panics.
C24_GetAsMetadata ==
    \A k \in Keys : \A r \in AskedRevs :
        open(k, r).err = "ErrNotExist"
        => /\ Get(k, r).err = Metadata(k, r).err
           /\ Get(k, r).err =
                  (IF \E h \in Stored(k) : h > r THEN "ErrRevisionDeleted"
                   ELSE "ErrNoSuchArtifact")

\* ------------------------------------------------------------------ C25

\* The error of opening and decoding the stored file of revision r of k.
DecodeError(k, r) ==
    IF open(k, r).err /= "nil" THEN open(k, r).err
    ELSE ReaderMetadata(open(k, r).f).err

\* C25: when a revision file exists but cannot be opened or decoded,
\* Metadata and Get both return that error; neither succeeds.
C25_ErrorReturned ==
    \A k \in Keys : \A r \in Stored(k) :
        DecodeError(k, r) /= "nil"
        => /\ Metadata(k, r).err = DecodeError(k, r)
           /\ Get(k, r).err = DecodeError(k, r)

\* ------------------------------------------------------------------ C26

\* The step is sweepByTime removing the file of revision r of its key.
TimeSweepRemoves(r) ==
    /\ timeSweep[Sweeper].pc = "loop"
    /\ timeSweep' /= timeSweep
    /\ files[escape(timeSweep[Sweeper].key)][r] /= NoFile
    /\ files'[escape(timeSweep[Sweeper].key)][r] = NoFile

\* C26: a period sweep removes a revision only if it is not the latest
\* revision of its key, its timestamp can be read, and timestamp + Period
\* lies in the past.
C26_OnlyExpired ==
    [][\A r \in Revs :
          TimeSweepRemoves(r)
          => /\ r /= Latest(timeSweep[Sweeper].key).revision
             /\ DecodeError(timeSweep[Sweeper].key, r) = "nil"
             /\ files[escape(timeSweep[Sweeper].key)][r].meta.timestamp.t + retain.Period
                    < now]_vars

\* ------------------------------------------------------------------ C27

\* Process p reads Latest and takes its number in this step.
Allocates(p) == pc[p] = "latest" /\ pc'[p] = "create"

\* Process q holds the number after Latest for key k and has no file yet.
HoldsNext(q, k) ==
    /\ pc[q] \notin {"idle", "latest"}
    /\ call[q].key = k
    /\ call[q].revision = Latest(k).revision + 1

\* C27: a Put that is allocated its number while another Put of the same
\* key holds the number after Latest gets that same number (no lock), and
\* creating a revision file that already exists empties it; so two
\* overlapping Puts can both return one revision, one overwriting the other.
C27_SameRevision ==
    [][\A p \in Writers :
          /\ \A q \in Writers \ {p} :
                 (Allocates(p) /\ HoldsNext(q, call[p].key))
                 => call'[p].revision = call[q].revision
          /\ (pc[p] = "create" /\ pc'[p] = "stage")
             => files'[escape(call[p].key)][call[p].revision] = CreatedFile]_vars

\* Both Puts have returned revision 1 without error; the file holds the
\* second caller's upload only.
C27_Witness ==
    /\ pc = [p \in Writers |-> "idle"]
    /\ returned[KeyAB] = <<1, 1>>
    /\ \A p \in Writers :
           /\ result[p] /= NoResult
           /\ result[p].err = "nil"
           /\ result[p].revision = 1
           /\ result[p].body = BodyOf(p)
    /\ Stored(KeyAB) = {1}
    /\ Get(KeyAB, 1).err = "nil"
    /\ Get(KeyAB, 1).body = [data |-> BodyYZ, err |-> "nil"]
    /\ Get(KeyAB, 1).meta.hash = Hash(BodyYZ)

\* ------------------------------------------------------------------ C28

\* The step is a sweeper (sweepByNum or sweepByTime) removing revision r of k.
SweepRemoves(k, r) ==
    /\ numSweep' /= numSweep \/ timeSweep' /= timeSweep
    /\ files[escape(k)][r] /= NoFile
    /\ files'[escape(k)][r] = NoFile

\* A Put in progress has created the file of revision r of k.
BeingWritten(k, r) ==
    \E p \in Procs : /\ pc[p] \notin {"idle", "latest", "create"}
                     /\ call[p].key = k
                     /\ call[p].revision = r

\* Revision r is the one the last successful Put of k returned, and no
\* later Put of k has created a file.
JustPublished(k, r) ==
    /\ returned[k] /= <<>>
    /\ returned[k][Len(returned[k])] = r
    /\ \A n \in Revs : ~BeingWritten(k, n)

\* C28: with one Put at a time per key, no sweep removes the file a Put is
\* writing or the file the last Put has published.
C28_WriteSetsDisjoint ==
    [][\A k \in Keys : \A r \in Revs :
          SweepRemoves(k, r) => ~BeingWritten(k, r) /\ ~JustPublished(k, r)]_vars

\* The same for the count sweeps alone.
C28_CountSweepDisjoint ==
    [][\A k \in Keys : \A r \in Revs :
          (SweepRemoves(k, r) /\ numSweep' /= numSweep)
          => ~BeingWritten(k, r) /\ ~JustPublished(k, r)]_vars

\* ------------------------------------------------------------------ C29

\* C29: for a published artifact of Total bytes and Range: bytes=-N with
\* 0 < N <= Total, GET is answered 206 with Content-Length N, Content-Range
\* (Total-N)-(Total-1)/Total and the last N bytes of the payload.
C29_SuffixRange ==
    [][(/\ AnswersGet
        /\ get.req.range.unit = "bytes="
        /\ get.req.range.from.kind = "absent"
        /\ get.req.range.to.kind = "num"
        /\ 0 < get.req.range.to.n
        /\ get.req.range.to.n <= Len(Payload(get.req.rev.n)))
       => LET N == get.req.range.to.n
              payload == Payload(get.req.rev.n)
              Total == Len(payload)
          IN  /\ get'.resp.status = 206
              /\ get'.resp.headers.length = N
              /\ get'.resp.headers.crange =
                     [from |-> Total - N, last |-> Total - 1, total |-> Total]
              /\ get'.resp.body =
                     [kind |-> "data", data |-> SubSeq(payload, Total - N + 1, Total),
                      err |-> "nil"]]_vars

\* ------------------------------------------------------------------ C30

\* A non-empty text of decimal digits.
AllDigits(s) == s /= <<>> /\ \A i \in 1..Len(s) : IsDigit(s[i])

\* The text of the header between "bytes=" and its first comma.
LeadingSpec(h) ==
    LET t == SubSeq(h, Len(BytesUnit) + 1, Len(h))
    IN  IF IndexOf(t, ",") = 0 THEN t ELSE SubSeq(t, 1, IndexOf(t, ",") - 1)

\* The shapes A-B, A- and -N of a spec.
ShapeAB(t) ==
    /\ IndexOf(t, "-") > 1
    /\ AllDigits(SubSeq(t, 1, IndexOf(t, "-") - 1))
    /\ AllDigits(SubSeq(t, IndexOf(t, "-") + 1, Len(t)))

ShapeA(t) == Len(t) > 1 /\ t[Len(t)] = "-" /\ AllDigits(SubSeq(t, 1, Len(t) - 1))

ShapeN(t) == Len(t) > 1 /\ Head(t) = "-" /\ AllDigits(Tail(t))

\* The parts of the mapping that do not depend on N: the empty header, A-B,
\* A-, the first of several specs, and the validation.
ParsedAsSpecified(h, total, r, size) ==
    LET t == LeadingSpec(h)
        dash == IndexOf(t, "-")
    IN  /\ h = <<>> => r = [err |-> "nil", req |-> ZeroRange]
        /\ (HasPrefix(h, BytesUnit) /\ ShapeAB(t))
           => LET A == DecimalValue(SubSeq(t, 1, dash - 1))
                  B == DecimalValue(SubSeq(t, dash + 1, Len(t)))
              IN  /\ r.req = [From |-> A, To |-> B + 1, Suffix |-> 0, Total |-> 0]
                  /\ size = B - A + 1
        /\ (HasPrefix(h, BytesUnit) /\ ShapeA(t))
           => LET A == DecimalValue(SubSeq(t, 1, Len(t) - 1))
              IN  /\ r = [err |-> "nil",
                          req |-> [From |-> A, To |-> 0, Suffix |-> 0, Total |-> 0]]
                  /\ size = total - A
        /\ HasPrefix(h, BytesUnit) => r = parseRangeHeader(BytesUnit \o t)
        /\ r.err \in {"nil", "ErrInvalidRange"}
           => (r.err = "ErrInvalidRange"
               <=> (r.req.From < 0 \/ (r.req.To /= 0 /\ r.req.To <= r.req.From)))

OtherUnit(h) == h.unit \notin {"", "bytes="}

\* A number of the Range header does not parse.
BadNumber(h) == h.unit = "bytes=" /\ (h.from.kind = "junk" \/ h.to.kind = "junk")

\* bytes=A-B with B before A.
FailsValidation(h) ==
    /\ h.unit = "bytes="
    /\ h.from.kind = "num" /\ h.to.kind = "num"
    /\ (h.from.n < 0 \/ h.to.n < h.from.n)

\* The handler takes up a GET with rev for a non-empty key whose Range
\* header is of another unit, has a bad number or fails validation.
TakesUpBadRange ==
    /\ get.pc = "idle" /\ get' /= get /\ get' /= IdleGet
    /\ get'.req.method = "GET"
    /\ get'.req.rev /= Absent
    /\ TrimLeft(get'.req.path) /= <<>>
    /\ \/ OtherUnit(get'.req.range)
       \/ BadNumber(get'.req.range)
       \/ FailsValidation(get'.req.range)

\* The request is answered 400 without artifact bytes, and the error of
\* parseRangeRequest for another unit differs from that for a bad number.
BadRangeAnswer ==
    /\ get'.resp /= NoResp
    /\ get'.resp.status = 400
    /\ get'.resp.body.kind /= "data"
    /\ OtherUnit(get'.req.range)
       => parseRangeRequest(get'.req.range).err = "ErrInvalidRangeType"
    /\ BadNumber(get'.req.range)
       => parseRangeRequest(get'.req.range).err \notin {"nil", "ErrInvalidRangeType"}

\* C31 as stated: every GET with rev whose Range header is of another unit,
\* has a number that does not parse or fails validation is answered 400
\* with no artifact bytes, the two kinds of error being distinct.
C31_BadRange == [][TakesUpBadRange => BadRangeAnswer]_vars

\* C31 amended: the same for a rev that is not a valid number or whose
\* revision the metadata lookup finds; a revision that is missing is
\* answered 404 or 410 before the Range header is looked at.
C31_BadRangeOfFound ==
    [][(/\ TakesUpBadRange
        /\ \/ BadRev(get'.req.rev)
           \/ Metadata(TrimLeft(get'.req.path), get'.req.rev.n).err = "nil")
       => BadRangeAnswer]_vars

\* GET /a/b?rev=1 with Range: chunk=0-1 on the stored revision 1 was
\* answered 400.
C31_Witness ==
    /\ get.resp /= NoResp
    /\ get.req.method = "GET"
    /\ get.req.rev = Number(1)
    /\ get.req.range = [unit |-> "chunk=", from |-> Number(0), to |-> Number(1)]
    /\ get.resp.status = 400
    /\ Published(1)

\* ------------------------------------------------------------------ C32

\* The positions of '/' in a key.
SlashAt(k) == {i \in 1..Len(k) : k[i] = "/"}

\* The list holds exactly the prefixes of k that end in '/', each once,
\* from the longest to the shortest (the empty list for a key without '/').
PrefixesLongestFirst(k, list) ==
    /\ Len(list) = Cardinality(SlashAt(k))
    /\ \A j \in 1..Len(list) :
           /\ Len(list[j]) \in SlashAt(k)
           /\ list[j] = SubSeq(k, 1, Len(list[j]))
    /\ \A j \in 1..(Len(list) - 1) : Len(list[j]) > Len(list[j + 1])

\* C32 as stated: KeyPrefixes(key) is the list of the prefixes of key that
\* end in '/', longest first, and the key itself is never in the list.
C32_KeyPrefixes ==
    (checked /= NoCheck /\ checked.done)
    => /\ PrefixesLongestFirst(checked.key, KeyPrefixes(checked.key))
       /\ \A j \in 1..Len(KeyPrefixes(checked.key)) :
              KeyPrefixes(checked.key)[j] /= checked.key

\* C32 amended: the key itself is in the list exactly when it ends in '/'.
C32_KeyPrefixesProper ==
    (checked /= NoCheck /\ checked.done)
    => /\ PrefixesLongestFirst(checked.key, KeyPrefixes(checked.key))
       /\ (\E j \in 1..Len(KeyPrefixes(checked.key)) :
               KeyPrefixes(checked.key)[j] = checked.key)
          <=> checked.key[Len(checked.key)] = "/"

\* The prefixes of "//a" were listed: "//", then "/".
C32_Witness ==
    /\ checked /= NoCheck
    /\ checked.done
    /\ checked.key = <<"/", "/", "a">>
    /\ KeyPrefixes(checked.key) = << <<"/", "/">>, <<"/">> >>

\* ------------------------------------------------------------------ C33

\* The step is a Seek with this whence.
Seeks(whence) == checked'.op = "seek" /\ checked'.whence = whence

\* The Seek of the step reports position p without error and leaves the
\* reader there.
SeekLands(p) ==
    /\ checked'.reported = p
    /\ checked'.err = "nil"
    /\ checked'.pos = p

\* C33: after any reads and seeks on a reader over an artifact of S bytes,
\* Seek(p, Start) with 0 <= p <= S reports p, Seek(d, Current) lands where
\* Seek(pos+d, Start) does, Seek(o, End) where Seek(S-o, Start) does (so
\* Seek(0, End) reports S), and every read returns the payload from the
\* position on.
C33_ReaderSeek ==
    [][LET S == Len(checked.f.data)
           pos == checked.pos
           arg == checked'.arg
       IN  /\ (Seeks("start") /\ 0 <= arg /\ arg <= S) => SeekLands(arg)
           /\ (Seeks("current") /\ 0 <= pos + arg /\ pos + arg <= S)
              => SeekLands(pos + arg)
           /\ (Seeks("end") /\ 0 <= S - arg /\ S - arg <= S) => SeekLands(S - arg)
           /\ (Seeks("current") \/ Seeks("end"))
              => \E target \in {pos + arg, S - arg} :
                     /\ Seeks("current") => target = pos + arg
                     /\ Seeks("end") => target = S - arg
                     /\ checked'.reported = SeekStart(checked.f, target).pos
                     /\ checked'.err = SeekStart(checked.f, target).err
           /\ checked'.op = "read"
              => checked'.data =
                     SubSeq(checked.f.data, pos + 1,
                            IF pos + arg <= S THEN pos + arg ELSE S)]_vars

\* On three bytes: after a seek back to byte 1 from the end, a read of two
\* bytes returned the second and third byte.
C33_Witness ==
    /\ checked /= NoCheck
    /\ checked.op = "read"
    /\ checked.f.data = <<"0", "1", "2">>
    /\ checked.arg = 2
    /\ checked.data = <<"1", "2">>
    /\ checked.pos = 3

\* ------------------------------------------------------------------ C34

\* The revisions stored when the store settled, and the latest of them.
SettledRevs == {r \in Revs : checked.files[r] /= NoFile}

SettledLatest == Max(SettledRevs)

\* What the count sweep i, not finished when the store settled, is to remove.
CountShare(i) ==
    {r \in SettledRevs :
        /\ checked.tasks[i] /= NoTask
        /\ checked.tasks[i].pc /= "done"
        /\ retain.Num > 0
        /\ r <= checked.tasks[i].latest - retain.Num}

\* What a period sweep at the time the store settled is to remove.
PeriodShare ==
    {r \in SettledRevs :
        /\ retain.Period /= 0
        /\ r /= SettledLatest
        /\ checked.files[r].meta /= NoMeta
        /\ checked.files[r].meta.timestamp.t + retain.Period < now}

\* C34: at a fixed time, on a settled store, count sweeps and period sweeps
\* in any order, repeated or overlapping, remove the union of what each
\* removes alone and nothing more, and each sweep that returns has removed
\* its whole share: both orders leave the same set, and a second run of
\* either sweep removes nothing.
C34_SweepsCommute ==
    [][(checked /= NoCheck /\ checked' = checked)
       => /\ SettledRevs \ (PeriodShare \cup UNION {CountShare(i) : i \in SweepIds})
                \subseteq Stored(KeyAB)'
          /\ \A i \in SweepIds :
                (numSweep[i] /= NoTask /\ numSweep[i].pc /= "done"
                    /\ numSweep'[i].pc = "done")
                => Stored(KeyAB)' \cap CountShare(i) = {}
          /\ \A s \in Sweepers :
                (timeSweep[s].pc \in {"latest", "loop"} /\ timeSweep'[s].pc = "idle")
                => Stored(KeyAB)' \cap PeriodShare = {}]_vars

\* Three revisions were stored; the count sweep was to remove the first, a
\* period sweep the first and the second; all sweeps have returned and the
\* third is left.
C34_Witness ==
    /\ checked /= NoCheck
    /\ SettledRevs = {1, 2, 3}
    /\ CountShare(3) = {1}
    /\ PeriodShare = {1, 2}
    /\ numSweep[3].pc = "done"
    /\ \A s \in Sweepers : timeSweep[s].pc = "idle"
    /\ Stored(KeyAB) = {3}

\* ------------------------------------------------------------------ C35

\* Revision r of k is a whole file, is not the latest of k, and its
\* timestamp plus Period has passed.
Overdue(k, r) ==
    /\ files[escape(k)][r] /= NoFile
    /\ files[escape(k)][r].closed
    /\ files[escape(k)][r].meta /= NoMeta
    /\ files[escape(k)][r].meta.timestamp.t + retain.Period < now
    /\ r /= Latest(k).revision

\* A tick can start a sweep while the sweep of the tick before is running.
TickStartsSweep ==
    (timeSweep[Sweeper].pc /= "idle" /\ timeSweep[Overlapping].pc = "idle")
    => ENABLED Sweep(Overlapping)

\* A revision of k newer than r that a successful Put has returned is stored.
NewerPublished(k, r) ==
    \E n \in Revs :
        /\ n > r
        /\ n \in Stored(k)
        /\ files[escape(k)][n].closed
        /\ \E i \in 1..Len(returned[k]) : returned[k][i] = n

\* C35: with Period > 0 and fair sweepers, a revision past its period that
\* is not the latest of its key (a newer revision that a Put has published
\* is stored) is eventually removed; and a running sweep does not keep the
\* next tick from starting its own.  The highest number the model stores has
\* no newer revision.
C35_EventuallySwept ==
    /\ \A k \in TickKeys : \A r \in 1..(MaxPuts - 1) :
           (Overdue(k, r) /\ NewerPublished(k, r)) ~> (files[escape(k)][r] = NoFile)
    /\ []TickStartsSweep

\* ------------------------------------------------------------------ C36

\* The step in which a Put of k by p returns an error.
PutFails(p, k) ==
    /\ pc'[p] = "idle"
    /\ pc[p] /= "idle" \/ calls'[k] /= calls[k]
    /\ result'[p].key = k
    /\ result'[p].err /= "nil"

\* C36: when a Put fails, no file of its revision remains, Latest gives
\* the revision it gave when the Put looked it up, and a key that no Put
\* has stored successfully is still reported as no such artifact.
C36_FailedPutLeavesNothing ==
    [][\A p \in Procs : \A k \in Keys :
          PutFails(p, k)
          => /\ call[p].revision > 0
                => /\ files'[escape(k)][call[p].revision] = NoFile
                   /\ Latest(k)'.revision = call[p].revision - 1
             /\ returned[k] = <<>> => Latest(k)'.err = "ErrNoSuchArtifact"]_vars

\* ------------------------------------------------------------------ C37

\* The step in which the request under way is answered with this status.
AnsweredWith(status) ==
    /\ get' /= get
    /\ get'.req /= NoReq
    /\ get.resp = NoResp
    /\ get'.resp /= NoResp
    /\ get'.resp.status = status

\* C37: GET /K?rev=R is answered 410 only if a successful Put has returned
\* revision R of K and the file of R is gone.
C37_GoneOnlyIfPublished ==
    [][AnsweredWith(410)
       => LET key == TrimLeft(get'.req.path)
              rev == get'.req.rev
          IN  /\ rev /= Absent
              /\ ~BadRev(rev)
              /\ \E i \in 1..Len(returned[key]) : returned[key][i] = rev.n
              /\ NoFileOf(key, rev)]_vars

\* ------------------------------------------------------------------ C38

\* The handler answers a plain GET for a revision whose file the metadata
\* lookup found whole, as a successful Put leaves it.
AnswersPublished ==
    /\ Answers
    /\ get.pc = "open"
    /\ get.req = PlainGet("GET", get.req.path, get.req.rev)
    /\ get.looked /= NoFile
    /\ get.looked.closed
    /\ get.looked.meta /= NoMeta
    /\ Len(get.looked.data) = get.looked.meta.size

\* C38: a GET of a published revision, whatever a sweep does between the
\* handler's metadata lookup and its opening of the reader, is answered with
\* the complete artifact or with 410, never with 500 or by a crash.
C38_SweepDuringGet ==
    [][AnswersPublished
       => \/ Complete(get'.resp, get.looked.data)
          \/ get'.resp.status = 410]_vars

\* ------------------------------------------------------------------ C39

\* C39: when Put returns, with or without an error, its temporary file is
\* gone; the size and MD5 it puts into the metadata are those of the bytes
\* in the temporary file, and the revision file of a successful Put (unless
\* a sweep has unlinked it meanwhile) holds exactly those bytes.
C39_StagingFile ==
    [][\A p \in Procs :
          /\ (pc[p] /= "idle" /\ pc'[p] = "idle") => temps'[p] = NoTemp
          /\ (pc[p] = "copy" /\ pc'[p] /= "copy")
             => /\ call'[p].zmeta.size = Len(temps[p].data)
                /\ call'[p].zmeta.hash = Hash(temps[p].data)
          /\ (pc[p] = "return" /\ pc'[p] = "idle")
             => LET f == files'[escape(call[p].key)][call[p].revision]
                IN  f /= NoFile
                    => /\ f.data = temps[p].data
                       /\ f.meta.size = Len(f.data)
                       /\ f.meta.hash = Hash(f.data)]_vars

\* A Put has published two bytes with their size and MD5, a later Put has
\* failed after its temporary file was written, and no temporary file is left.
C39_Witness ==
    /\ returned[KeyAB] = <<1>>
    /\ files[escape(KeyAB)][1] /= NoFile
    /\ files[escape(KeyAB)][1].closed
    /\ files[escape(KeyAB)][1].meta.size = Len(BodyYZ)
    /\ files[escape(KeyAB)][1].meta.hash = Hash(BodyYZ)
    /\ result[Uploader] /= NoResult
    /\ result[Uploader].err = "put"
    /\ calls[KeyAB] = MaxPuts - 1
    /\ \A p \in Writers : pc[p] = "idle" /\ temps[p] = NoTemp

====
